---- MODULE Spec2Model ----
(***************************************************************************)
(* A model of the observer registry and change notifier of lib/glue.js.    *)
(*                                                                         *)
(* JavaScript values are tagged records, key and path strings are          *)
(* sequences of one-character tokens (operation names are single tokens),  *)
(* and the registry keeps its keys in insertion order, as a JavaScript     *)
(* object does.                                                            *)
(***************************************************************************)
EXTENDS Integers, Sequences, FiniteSets, TLC

\* ------------------------------------------------------------------------
\* Bounds of the model
\* ------------------------------------------------------------------------
MaxAdds == 2
MaxRemoves == 1
MaxMutations == 1
MaxArrLen == 4
\* the bounds of SpecRepeat
MaxRepeatAdds == 1
MaxRepeats == 2
\* the bounds of SpecNested: the observers registered from outside and the
\* notify calls in progress at one time
MaxActors == 2
MaxDepth == 3

\* ------------------------------------------------------------------------
\* JavaScript values
\* ------------------------------------------------------------------------
Undef == [t |-> "undef"]
Null == [t |-> "null"]
Num(n) == [t |-> "num", n |-> n]
Obj(f) == [t |-> "obj", f |-> f]
Arr(e) == [t |-> "arr", e |-> e]

\* v == null
IsNullish(v) == v.t \in {"undef", "null"}

\* utils.isEqual
RECURSIVE isEqual(_, _)
\* a comparison by identity: two clones of an array or object never match
isEqualIdentity(a, b) == a.t \notin {"arr", "obj"} /\ a = b

isEqual(a, b) ==
  IF a.t = "undef" /\ b.t = "undef" THEN TRUE
  ELSE IF a.t = "null" /\ b.t = "null" THEN TRUE
  ELSE IF IsNullish(a) \/ IsNullish(b) THEN FALSE
  ELSE IF a.t # b.t THEN FALSE
  ELSE IF a.t = "num" THEN a.n = b.n
  ELSE IF a.t = "arr" THEN
    /\ Len(a.e) = Len(b.e)
    /\ \A i \in 1..Len(a.e) : isEqual(a.e[i], b.e[i])
  ELSE
    /\ Cardinality(DOMAIN a.f) = Cardinality(DOMAIN b.f)
    /\ \A k \in DOMAIN a.f : k \in DOMAIN b.f /\ isEqual(a.f[k], b.f[k])

\* Glue.deepClone: JSON.parse(JSON.stringify(obj)).  An undefined property is
\* dropped, an undefined array element comes back as null.
RECURSIVE deepClone(_)
deepClone(v) ==
  IF v.t = "arr" THEN
    Arr([i \in 1..Len(v.e) |->
           IF v.e[i].t = "undef" THEN Null ELSE deepClone(v.e[i])])
  ELSE IF v.t = "obj" THEN
    LET ks == {k \in DOMAIN v.f : v.f[k].t # "undef"}
    IN  Obj([k \in ks |-> deepClone(v.f[k])])
  ELSE v

\* ------------------------------------------------------------------------
\* Strings as token sequences
\* ------------------------------------------------------------------------
Digits == <<"0", "1", "2", "3", "4", "5", "6", "7", "8", "9">>
IsDigit(c) == \E i \in 1..10 : Digits[i] = c
DigitVal(c) == (CHOOSE i \in 1..10 : Digits[i] = c) - 1

\* parseInt on a run of digits
RECURSIVE parseInt(_)
parseInt(ds) ==
  IF ds = <<>> THEN 0
  ELSE 10 * parseInt(SubSeq(ds, 1, Len(ds) - 1)) + DigitVal(ds[Len(ds)])

\* String(n) for the indices the model reaches
NatToStr(n) == IF n < 10 THEN <<Digits[n + 1]>>
               ELSE <<Digits[(n \div 10) + 1], Digits[(n % 10) + 1]>>

AllDigits(s) == \A i \in 1..Len(s) : IsDigit(s[i])

\* a string that names an array index: "0", "1", "12", but not "01" or ""
IsCanonIndex(s) == /\ s # <<>>
                   /\ AllDigits(s)
                   /\ (Len(s) > 1 => s[1] # "0")

\* s.indexOf(c) and s.lastIndexOf(c), 1-based, 0 when absent
IndexOf(s, c) == IF \E i \in 1..Len(s) : s[i] = c
                 THEN CHOOSE i \in 1..Len(s) : s[i] = c /\ \A j \in 1..(i-1) : s[j] # c
                 ELSE 0
LastIndexOf(s, c) == IF \E i \in 1..Len(s) : s[i] = c
                     THEN CHOOSE i \in 1..Len(s) : s[i] = c /\ \A j \in (i+1)..Len(s) : s[j] # c
                     ELSE 0

\* s.split(c)
RECURSIVE Split(_, _)
Split(s, c) ==
  LET i == IndexOf(s, c)
  IN  IF i = 0 THEN <<s>>
      ELSE <<SubSeq(s, 1, i - 1)>> \o Split(SubSeq(s, i + 1, Len(s)), c)

\* parts.join(c)
RECURSIVE Join(_, _)
Join(parts, c) ==
  IF parts = <<>> THEN <<>>
  ELSE IF Len(parts) = 1 THEN parts[1]
  ELSE parts[1] \o <<c>> \o Join(Tail(parts), c)

\* Glue.normalizeKey: key.replace(/\s/g, '')
normalizeKey(key) == SelectSeq(key, LAMBDA c : c # " ")

\* the length of the run of digits at the start of s
RECURSIVE DigitRun(_)
DigitRun(s) == IF s # <<>> /\ IsDigit(s[1]) THEN 1 + DigitRun(Tail(s)) ELSE 0

\* /^\[(\d+)\]/ : the length of the match at the start of s, 0 when none
BracketIndexLen(s) ==
  IF s # <<>> /\ s[1] = "["
  THEN LET n == DigitRun(Tail(s))
       IN  IF n > 0 /\ Len(s) >= n + 2 /\ s[n + 2] = "]" THEN n + 2 ELSE 0
  ELSE 0

\* /\[(\d+)\]$/ : the position of the "[" of the match, 0 when none
RECURSIVE DigitRunBack(_)
DigitRunBack(s) ==
  IF s # <<>> /\ IsDigit(s[Len(s)])
  THEN 1 + DigitRunBack(SubSeq(s, 1, Len(s) - 1)) ELSE 0

ArrayIndexAt(key) ==
  IF key # <<>> /\ key[Len(key)] = "]"
  THEN LET n == DigitRunBack(SubSeq(key, 1, Len(key) - 1))
       IN  IF n > 0 /\ Len(key) >= n + 2 /\ key[Len(key) - n - 1] = "["
           THEN Len(key) - n - 1 ELSE 0
  ELSE 0

\* /\[\]$/
IsGenericKey(key) ==
  Len(key) >= 2 /\ key[Len(key) - 1] = "[" /\ key[Len(key)] = "]"

\* ------------------------------------------------------------------------
\* Glue.prototype.get
\* ------------------------------------------------------------------------
\* One property read, current[name].  On null or undefined it throws a
\* TypeError, which ends the evaluation it is part of.
TypeError == [t |-> "TypeError"]
Child(v, name) ==
  IF v.t = "obj" THEN (IF name \in DOMAIN v.f THEN v.f[name] ELSE Undef)
  ELSE IF v.t = "arr" THEN
    (IF IsCanonIndex(name) /\ parseInt(name) < Len(v.e)
     THEN v.e[parseInt(name) + 1] ELSE Undef)
  ELSE IF IsNullish(v) \/ v = TypeError THEN TypeError
  ELSE Undef

\* The reads one dot segment makes, in order: each a property name and
\* whether it was read by the bracket branches (which turn null into
\* undefined) or by the regular-property branch.
RECURSIVE SegmentSteps(_)
SegmentSteps(remaining) ==
  IF remaining = <<>> THEN <<>>
  ELSE LET b == IndexOf(remaining, "[")
           n == IF b > 1 THEN BracketIndexLen(SubSeq(remaining, b, Len(remaining))) ELSE 0
           m == BracketIndexLen(remaining)
       IN  IF n > 0 THEN
             << [name |-> SubSeq(remaining, 1, b - 1), bracket |-> TRUE],
                [name |-> NatToStr(parseInt(SubSeq(remaining, b + 1, b + n - 2))),
                 bracket |-> TRUE] >>
             \o SegmentSteps(SubSeq(remaining, b + n, Len(remaining)))
           ELSE IF m > 0 THEN
             << [name |-> NatToStr(parseInt(SubSeq(remaining, 2, m - 1))),
                 bracket |-> TRUE] >>
             \o SegmentSteps(SubSeq(remaining, m + 1, Len(remaining)))
           ELSE << [name |-> remaining, bracket |-> FALSE] >>

RECURSIVE KeySteps(_)
KeySteps(segments) ==
  IF segments = <<>> THEN <<>>
  ELSE SegmentSteps(segments[1]) \o KeySteps(Tail(segments))

\* a walk that reads on without looking for a null or undefined link
RECURSIVE WalkUnguarded(_, _, _)
WalkUnguarded(current, steps, loc) ==
  IF steps = <<>> THEN [found |-> TRUE, value |-> current, loc |-> loc]
  ELSE WalkUnguarded(Child(current, steps[1].name), Tail(steps),
                     Append(loc, steps[1].name))

\* The walk of get: the value reached and the names read to reach it.
\* found is FALSE when the walk returned undefined at a null or undefined link.
RECURSIVE Walk(_, _, _)
Walk(current, steps, loc) ==
  IF steps = <<>> THEN [found |-> TRUE, value |-> current, loc |-> loc]
  ELSE IF IsNullish(current) THEN [found |-> FALSE, value |-> Undef, loc |-> loc]
  ELSE LET next == Child(current, steps[1].name)
       IN  IF steps[1].bracket /\ IsNullish(next)
           THEN [found |-> FALSE, value |-> Undef, loc |-> loc]
           ELSE Walk(next, Tail(steps), Append(loc, steps[1].name))

Locate(key, obj) ==
  LET nk == normalizeKey(key)
  IN  IF key = <<>> \/ key = <<"*">>
      THEN [found |-> TRUE, value |-> obj, loc |-> <<>>]
      ELSE IF /\ obj.t = "arr"
              /\ IndexOf(nk, ".") = 0
              /\ BracketIndexLen(nk) = Len(nk)
              /\ Len(nk) > 0
      THEN \* array-only notation: target[parseInt(match[1])]
           LET name == NatToStr(parseInt(SubSeq(nk, 2, Len(nk) - 1)))
           IN  [found |-> TRUE, value |-> Child(obj, name), loc |-> <<name>>]
      ELSE Walk(obj, KeySteps(Split(nk, ".")), <<>>)

get(key, obj) == Locate(key, obj).value

\* ------------------------------------------------------------------------
\* The registry: this.listeners = {specific: {}, generic: {}}
\* ------------------------------------------------------------------------
\* A JavaScript object with string keys, in insertion order: a sequence of
\* [key, listeners] entries with distinct keys.
MapKeys(map) == [i \in 1..Len(map) |-> map[i].key]
MapHas(map, key) == \E i \in 1..Len(map) : map[i].key = key
MapIndex(map, key) == CHOOSE i \in 1..Len(map) : map[i].key = key
MapGet(map, key) == IF MapHas(map, key) THEN map[MapIndex(map, key)].listeners ELSE <<>>
MapSet(map, key, ls) ==
  IF MapHas(map, key)
  THEN [map EXCEPT ![MapIndex(map, key)].listeners = ls]
  ELSE Append(map, [key |-> key, listeners |-> ls])
\* a delete that leaves the key with an empty list
MapDeleteEmptied(map, key) ==
  IF MapHas(map, key) THEN [map EXCEPT ![MapIndex(map, key)].listeners = <<>>] ELSE map
MapDelete(map, key) == SelectSeq(map, LAMBDA en : en.key # key)

\* Glue.prototype.resetListeners
resetListeners == [specific |-> <<>>, generic |-> <<>>]

\* utils.isEmpty on a string or an array
isEmpty(s) == Len(s) = 0

\* Glue.keysAndOperations: the key string is split on ":" first, then its
\* first part on "," into keys and its second part on "," into operations.
keysAndOperations(ko) ==
  LET k == Split(normalizeKey(ko), ":")
  IN  [keys |-> IF isEmpty(k[1]) THEN << <<>> >> ELSE Split(k[1], ","),
       operations |-> IF Len(k) < 2 \/ isEmpty(k[2]) THEN <<>> ELSE Split(k[2], ",")]

\* a type that sends every key to the specific map
KeyTypeSpecific(key) == "specific"
KeyType(key) == IF IsGenericKey(key) THEN "generic" ELSE "specific"

\* an add that puts the listener at the head of the list of its key
RECURSIVE AddEachFirst(_, _, _)
AddEachFirst(ls, keys, listener) ==
  IF keys = <<>> THEN ls
  ELSE LET key == keys[1]
           type == KeyType(key)
       IN  AddEachFirst([ls EXCEPT ![type] = MapSet(ls[type], key,
                                                    <<listener>> \o MapGet(ls[type], key))],
                        Tail(keys), listener)

\* add(k, callback, context) of addObserver: one listener record per key,
\* appended to that key's list.
RECURSIVE AddEach(_, _, _)
AddEach(ls, keys, listener) ==
  IF keys = <<>> THEN ls
  ELSE LET key == keys[1]
           type == KeyType(key)
       IN  AddEach([ls EXCEPT ![type] = MapSet(ls[type], key,
                                               Append(MapGet(ls[type], key), listener))],
                   Tail(keys), listener)

add(ls, k, callback, context) ==
  LET ko == keysAndOperations(k)
      keys == IF ko.keys = << <<>> >> THEN << <<"*">> >> ELSE ko.keys
  IN  AddEach(ls, keys, [callback |-> callback, operations |-> ko.operations,
                         context |-> context])

\* utils.difference on arrays of strings
difference(array, others) ==
  SelectSeq(array, LAMBDA v : \A i \in 1..Len(others) : others[i] # v)

\* utils.union(utils.keys(specific), utils.keys(generic))
RECURSIVE Uniq(_)
Uniq(s) ==
  IF s = <<>> THEN <<>>
  ELSE LET r == Uniq(SubSeq(s, 1, Len(s) - 1))
       IN  IF \E i \in 1..Len(r) : r[i] = s[Len(s)] THEN r ELSE Append(r, s[Len(s)])
union(a, b) == Uniq(a \o b)

\* a predicate that drops no listener
RejectedNever(listener, operations, hasContext, context) == FALSE

\* a predicate that drops no listener for its operations when no context
\* was passed
RejectedByContext(listener, operations, hasContext, context) ==
  IF ~isEmpty(operations) /\ hasContext
  THEN isEmpty(listener.operations) /\ listener.context = context
  ELSE IF hasContext THEN listener.context = context
  ELSE isEmpty(operations)

\* The predicate of utils.reject in remove: TRUE for a listener to drop.
\* hasContext is FALSE when no context was passed (or a falsy one).
Rejected(listener, operations, hasContext, context) ==
  IF ~isEmpty(operations) /\ hasContext
  THEN isEmpty(listener.operations) /\ listener.context = context
  ELSE IF hasContext THEN listener.context = context
  ELSE IF ~isEmpty(operations) THEN isEmpty(listener.operations)
  ELSE TRUE

\* a loop body that drops the listeners whatever operations are named
RemoveKeyWhole(ls, key, operations, hasContext, context) ==
  LET type == KeyType(key)
      kept == SelectSeq(MapGet(ls[type], key),
                        LAMBDA l : hasContext /\ l.context # context)
  IN  IF ~MapHas(ls[type], key) THEN ls
      ELSE IF isEmpty(kept) THEN [ls EXCEPT ![type] = MapDelete(@, key)]
      ELSE [ls EXCEPT ![type] = MapSet(@, key, kept)]

\* The body of the loop over keys in remove, for one key.
RemoveKey(ls, key, operations, hasContext, context) ==
  LET type == KeyType(key)
  IN  IF ~MapHas(ls[type], key) THEN ls
      ELSE LET cur == MapGet(ls[type], key)
               sub == IF ~isEmpty(operations)
                      THEN [i \in 1..Len(cur) |->
                              [cur[i] EXCEPT !.operations = difference(@, operations)]]
                      ELSE cur
               kept == SelectSeq(sub, LAMBDA l : ~Rejected(l, operations, hasContext, context))
           IN  IF isEmpty(kept)
               THEN [ls EXCEPT ![type] = MapDelete(@, key)]
               ELSE [ls EXCEPT ![type] = MapSet(@, key, kept)]

RECURSIVE RemoveEach(_, _, _, _, _)
RemoveEach(ls, keys, operations, hasContext, context) ==
  IF keys = <<>> THEN ls
  ELSE RemoveEach(RemoveKey(ls, keys[1], operations, hasContext, context),
                  Tail(keys), operations, hasContext, context)

\* remove(k, context) of removeObserver
remove(ls, k, hasContext, context) ==
  LET ko == keysAndOperations(k)
      keys == IF ko.keys = << <<>> >>
              THEN union(MapKeys(ls.specific), MapKeys(ls.generic))
              ELSE ko.keys
  IN  RemoveEach(ls, keys, ko.operations, hasContext, context)

\* ------------------------------------------------------------------------
\* Glue.prototype.notify
\* ------------------------------------------------------------------------
RECURSIVE Concat(_)
Concat(ss) == IF ss = <<>> THEN <<>> ELSE ss[1] \o Concat(Tail(ss))

\* Glue.permutateKey: for every dot prefix k of key that ends in "]", the
\* prefix, the prefix without the digits before that "]", and those digits
\* as a number (NaN, written -1, when there are none).
permutateKey(key) ==
  LET segments == Split(key, ".")
      k(i) == Join(SubSeq(segments, 1, i), ".")
      one(i) ==
        IF k(i) # <<>> /\ k(i)[Len(k(i))] = "]"
        THEN LET n == DigitRunBack(SubSeq(k(i), 1, Len(k(i)) - 1))
                 ds == SubSeq(k(i), Len(k(i)) - n, Len(k(i)) - 1)
             IN  << [specific |-> k(i),
                     generic |-> SubSeq(k(i), 1, Len(k(i)) - n - 1) \o <<"]">>,
                     index |-> IF n = 0 THEN -1 ELSE parseInt(ds)] >>
        ELSE <<>>
  IN  Concat([i \in 1..Len(segments) |-> one(i)])

\* utils.include(listener.operations, operation)
include(operations, operation) ==
  \E i \in 1..Len(operations) : operations[i] = <<operation>>

\* the operations test of invoke: an empty list admits every operation
Admits(operations, operation) ==
  isEmpty(operations) \/ include(operations, operation)

\* invoke without the comparison of the two clones
invokeUnchanged(operation, key, listener, currentValue, oldValueClone, currentValueClone, index) ==
  IF Admits(listener.operations, operation)
  THEN << [key |-> key, callback |-> listener.callback, context |-> listener.context,
           operation |-> operation, value |-> currentValue, index |-> index] >>
  ELSE <<>>

\* invoke: the listener is called iff the two clones differ and its
\* operations admit the operation.  The result is the sequence of calls
\* made, empty or one call.  index is -2 for a message without one.
invoke(operation, key, listener, currentValue, oldValueClone, currentValueClone, index) ==
  IF ~isEqual(currentValueClone, oldValueClone)
     /\ Admits(listener.operations, operation)
  THEN << [key |-> key, callback |-> listener.callback, context |-> listener.context,
           operation |-> operation, value |-> currentValue, index |-> index] >>
  ELSE <<>>

RECURSIVE InvokeAll(_, _, _, _, _, _, _, _)
InvokeAll(operation, key, listeners, i, currentValue, oldValueClone, currentValueClone, index) ==
  IF i > Len(listeners) THEN <<>>
  ELSE invoke(operation, key, listeners[i], currentValue, oldValueClone,
              currentValueClone, index)
       \o InvokeAll(operation, key, listeners, i + 1, currentValue, oldValueClone,
                    currentValueClone, index)

\* utils.each(this.listeners.specific, ...): every registered key, in
\* insertion order; every listener of the key, in registration order.
NotifySpecific(ls, tgt, operation, oldTargetClone, currentTargetClone) ==
  Concat([i \in 1..Len(ls.specific) |->
            LET k == ls.specific[i].key
            IN  InvokeAll(operation, k, ls.specific[i].listeners, 1,
                          get(k, tgt), get(k, oldTargetClone),
                          get(k, currentTargetClone), -2)])

\* The first loop of invokeGeneric: the generic keys of the index
\* permutations of the mutated key.
NotifyPermutations(ls, tgt, operation, key, oldTargetClone, currentTargetClone) ==
  LET kis == permutateKey(key)
  IN  Concat([i \in 1..Len(kis) |->
                InvokeAll(operation, kis[i].generic, MapGet(ls.generic, kis[i].generic), 1,
                          get(kis[i].specific, tgt),
                          get(kis[i].specific, oldTargetClone),
                          get(kis[i].specific, currentTargetClone),
                          kis[i].index)])

\* key.replace('[', '\\[').replace(']', '\\]') as a regular expression:
\* the first "[" and the first "]" are literals, "." matches any character,
\* a later "[" opens a character class that runs to the next "]".
RECURSIVE Pattern(_, _, _)
Pattern(key, openSeen, closeSeen) ==
  IF key = <<>> THEN <<>>
  ELSE IF key[1] = "[" /\ ~openSeen
    THEN <<[kind |-> "lit", cs |-> {"["}]>> \o Pattern(Tail(key), TRUE, closeSeen)
  ELSE IF key[1] = "]" /\ ~closeSeen
    THEN <<[kind |-> "lit", cs |-> {"]"}]>> \o Pattern(Tail(key), openSeen, TRUE)
  ELSE IF key[1] = "."
    THEN <<[kind |-> "any", cs |-> {}]>> \o Pattern(Tail(key), openSeen, closeSeen)
  ELSE IF key[1] = "[" /\ IndexOf(Tail(key), "]") > 0
    THEN LET c == IndexOf(Tail(key), "]")
         IN  <<[kind |-> "lit", cs |-> {Tail(key)[j] : j \in 1..(c - 1)}]>>
             \o Pattern(SubSeq(key, c + 2, Len(key)), openSeen, closeSeen)
  ELSE <<[kind |-> "lit", cs |-> {key[1]}]>> \o Pattern(Tail(key), openSeen, closeSeen)

\* a matcher that takes every generic key under the array of the key
KeyMatchesArray(key, k) ==
  LET n == IF key # <<>> /\ key[Len(key)] = "]" /\ LastIndexOf(key, "[") > 0
           THEN LastIndexOf(key, "[") - 1 ELSE Len(key)
  IN  Len(k) >= n /\ SubSeq(k, 1, n) = SubSeq(key, 1, n)

\* k.match(keyMatcher), the pattern anchored at the start of k
KeyMatches(key, k) ==
  LET pat == Pattern(key, FALSE, FALSE)
  IN  /\ Len(k) >= Len(pat)
      /\ \A i \in 1..Len(pat) : pat[i].kind = "any" \/ k[i] \in pat[i].cs

\* Glue.baseKey: key.replace(/\[[^\[]*\]$/, '')
baseKey(key) ==
  IF key # <<>> /\ key[Len(key)] = "]" /\ LastIndexOf(key, "[") > 0
  THEN SubSeq(key, 1, LastIndexOf(key, "[") - 1)
  ELSE key

\* v.length; -1 stands for undefined (every comparison with it is false)
Length(v) == IF v.t = "arr" THEN Len(v.e) ELSE -1

\* a range that is never reversed
RangeAscending(maxRange, reverse) ==
  IF maxRange <= 0 THEN <<>> ELSE [i \in 1..maxRange |-> i - 1]

\* a range that is always reversed
RangeDescending(maxRange, reverse) ==
  IF maxRange <= 0 THEN <<>> ELSE [i \in 1..maxRange |-> maxRange - i]

\* utils.range(0, maxRange), reversed when reverse is set
Range(maxRange, reverse) ==
  IF maxRange <= 0 THEN <<>>
  ELSE [i \in 1..maxRange |-> IF reverse THEN maxRange - i ELSE i - 1]

\* What a part of notify does: the observer calls it makes, in order, and
\* whether it throws a TypeError after them.
Done(calls) == [calls |-> calls, error |-> FALSE]
Thrown == [calls |-> <<>>, error |-> TRUE]

\* one part, then the rest unless the part threw
Then(one, rest) ==
  IF one.error THEN one
  ELSE [calls |-> one.calls \o rest.calls, error |-> rest.error]

\* a maxRange that never looks at the current length
MaxRangeOld(oldLength, currentLength) == oldLength

\* maxRange of invokeGeneric
MaxRange(oldLength, currentLength) ==
  IF oldLength # -1 /\ currentLength # -1 /\ oldLength > currentLength
  THEN oldLength ELSE currentLength

\* utils.each(range, ...) of invokeGeneric, for one generic key k
EachIndex(k, listeners, operation, currentArray, oldArrayClone, currentArrayClone, range) ==
  Concat([j \in 1..Len(range) |->
            InvokeAll(operation, k, listeners, 1,
                      Child(currentArray, NatToStr(range[j])),
                      Child(oldArrayClone, NatToStr(range[j])),
                      Child(currentArrayClone, NatToStr(range[j])),
                      range[j])])

\* The body of the second loop of invokeGeneric, for one generic key k:
\* reading .length of an absent array throws.
Children(k, listeners, operation, currentArray, oldArrayClone, currentArrayClone, reverse) ==
  IF IsNullish(oldArrayClone) \/ IsNullish(currentArrayClone) THEN Thrown
  ELSE Done(EachIndex(k, listeners, operation, currentArray, oldArrayClone,
                      currentArrayClone,
                      Range(MaxRange(Length(oldArrayClone), Length(currentArrayClone)),
                            reverse)))

NotifyChildren(k, listeners, tgt, operation, oldTargetClone, currentTargetClone, reverse) ==
  Children(k, listeners, operation, get(baseKey(k), tgt),
           get(baseKey(k), oldTargetClone), get(baseKey(k), currentTargetClone), reverse)

\* utils.each(affectedGenericChildren, ...): stops at the first key that throws
RECURSIVE NotifyAffected(_, _, _, _, _, _, _)
NotifyAffected(affected, i, tgt, operation, oldTargetClone, currentTargetClone, reverse) ==
  IF i > Len(affected) THEN Done(<<>>)
  ELSE Then(NotifyChildren(affected[i].key, affected[i].listeners, tgt, operation,
                           oldTargetClone, currentTargetClone, reverse),
            NotifyAffected(affected, i + 1, tgt, operation, oldTargetClone,
                           currentTargetClone, reverse))

\* invokeGeneric
invokeGeneric(ls, tgt, operation, key, oldTargetClone, currentTargetClone, reverse) ==
  Then(Done(NotifyPermutations(ls, tgt, operation, key, oldTargetClone,
                               currentTargetClone)),
       NotifyAffected(SelectSeq(ls.generic, LAMBDA en : KeyMatches(key, en.key)), 1,
                      tgt, operation, oldTargetClone, currentTargetClone, reverse))

\* a notify that runs invokeGeneric before the specific observers
NotifyWithGenericFirst(ls, tgt, operation, key, oldTargetClone, currentTargetClone, reverse) ==
  Then(invokeGeneric(ls, tgt, operation, key, oldTargetClone, currentTargetClone,
                     reverse),
       Done(NotifySpecific(ls, tgt, operation, oldTargetClone, currentTargetClone)))

\* the body of notify, currentTargetClone taken
NotifyWith(ls, tgt, operation, key, oldTargetClone, currentTargetClone, reverse) ==
  Then(Done(NotifySpecific(ls, tgt, operation, oldTargetClone, currentTargetClone)),
       invokeGeneric(ls, tgt, operation, key, oldTargetClone, currentTargetClone,
                     reverse))

\* notify(operation, key, oldTargetClone, reverse) with observers that
\* return: the calls it makes, in order, and whether it throws after them.
notify(ls, tgt, operation, key, oldTargetClone, reverse) ==
  NotifyWith(ls, tgt, operation, key, oldTargetClone, deepClone(tgt), reverse)

\* ------------------------------------------------------------------------
\* Writes into the live target
\* ------------------------------------------------------------------------
\* container[name] = value on an object or an array (name a canonical index)
PutChild(container, name, value) ==
  IF container.t = "obj"
  THEN Obj([k \in DOMAIN container.f \cup {name} |->
              IF k = name THEN value ELSE container.f[k]])
  ELSE LET i == parseInt(name) + 1
           n == Len(container.e)
       IN  Arr([j \in 1..(IF i > n THEN i ELSE n) |->
                  IF j = i THEN value
                  ELSE IF j <= n THEN container.e[j] ELSE Undef])

\* the root with the value at location loc replaced
RECURSIVE ReplaceAt(_, _, _)
ReplaceAt(root, loc, value) ==
  IF loc = <<>> THEN value
  ELSE PutChild(root, loc[1], ReplaceAt(Child(root, loc[1]), Tail(loc), value))

\* the value at location loc of root
RECURSIVE ValueAt(_, _)
ValueAt(root, loc) ==
  IF loc = <<>> THEN root ELSE ValueAt(Child(root, loc[1]), Tail(loc))

\* base[keySuffix] = value, base being the object get returned, found at
\* location base.loc of tgt.  A null or undefined base throws a TypeError; a
\* primitive base ignores the write in sloppy mode and throws in strict
\* mode.  A write of a non-index property to an array is outside the model
\* (status "expando").
Assign(tgt, base, keySuffix, value, strict) ==
  IF IsNullish(base.value) THEN [status |-> "throw", target |-> tgt]
  ELSE IF base.value.t = "num"
    THEN [status |-> IF strict THEN "throw" ELSE "ok", target |-> tgt]
  ELSE IF base.value.t = "arr" /\ ~IsCanonIndex(keySuffix)
    THEN [status |-> "expando", target |-> tgt]
  ELSE [status |-> "ok",
        target |-> ReplaceAt(tgt, base.loc,
                             PutChild(ValueAt(tgt, base.loc), keySuffix, value))]

\* the split of a key at the rightmost of its last "." and its last "[":
\* key.substring(0, index) and key.substring(index+1).replace(/\]/g, '')
KeyPrefix(key) ==
  LET lastDot == LastIndexOf(key, ".")
      lastBracket == LastIndexOf(key, "[")
      index == IF lastBracket > lastDot THEN lastBracket ELSE lastDot
  IN  SubSeq(key, 1, index - 1)
KeySuffix(key) ==
  LET lastDot == LastIndexOf(key, ".")
      lastBracket == LastIndexOf(key, "[")
      index == IF lastBracket > lastDot THEN lastBracket ELSE lastDot
  IN  SelectSeq(SubSeq(key, index + 1, Len(key)), LAMBDA c : c # "]")

\* Glue.prototype.baseKeyAndSuffix
baseKeyAndSuffix(key, tgt) ==
  [base |-> Locate(KeyPrefix(key), tgt), suffix |-> KeySuffix(key)]

\* array.splice(index, deleteCount, ...items) and the elements it removes
Splice(e, index, deleteCount, items) ==
  LET at == IF index > Len(e) THEN Len(e) ELSE index
      del == IF at + deleteCount > Len(e) THEN Len(e) - at ELSE deleteCount
  IN  SubSeq(e, 1, at) \o items \o SubSeq(e, at + del + 1, Len(e))
Spliced(e, index) == IF index < Len(e) THEN e[index + 1] ELSE Undef

\* ------------------------------------------------------------------------
\* The mutating methods, up to their call of notify.  Each yields the
\* mutated target, whether a TypeError was thrown before notify was reached
\* (status "throw"), the key handed to notify and the value returned.
\* ------------------------------------------------------------------------
Outcome(status, tgt, key, ret) ==
  [status |-> status, target |-> tgt, keys |-> <<key>>, ret |-> ret]

\* a set that creates a missing container instead of throwing
setTargetCreating(tgt, key, value, strict) ==
  LET base == Locate(KeyPrefix(key), tgt)
      w == Assign(tgt, base, KeySuffix(key), value, strict)
      made == Obj([k \in {KeySuffix(key)} |-> value])
  IN  IF IsNullish(base.value) /\ tgt.t = "obj"
      THEN Outcome("ok", PutChild(tgt, KeyPrefix(key), made), key, Undef)
      ELSE Outcome(w.status, w.target, key, Undef)

\* Glue.prototype.set, lines before notify
setTarget(tgt, key, value, strict) ==
  LET base == Locate(KeyPrefix(key), tgt)
      w == Assign(tgt, base, KeySuffix(key), value, strict)
  IN  Outcome(w.status, w.target, key, Undef)

\* Glue.prototype.remove, lines before notify
removeTarget(tgt, key) ==
  LET m == ArrayIndexAt(key)
  IN  IF m > 0 THEN
        LET index == parseInt(SubSeq(key, m + 1, Len(key) - 1))
            coll == IF m = 1 THEN [found |-> TRUE, value |-> tgt, loc |-> <<>>]
                    ELSE Locate(SubSeq(key, 1, m - 1), tgt)
        IN  IF coll.value.t # "arr" THEN Outcome("throw", tgt, key, Undef)
            ELSE Outcome("ok",
                         ReplaceAt(tgt, coll.loc, Arr(Splice(coll.value.e, index, 1, <<>>))),
                         key, Spliced(coll.value.e, index))
      ELSE
        LET parts == Split(key, ".")
            top == parts[Len(parts)]
            rest == SubSeq(parts, 1, Len(parts) - 1)
            holder == IF Len(parts) > 1 THEN Locate(Join(rest, "."), tgt)
                      ELSE [found |-> TRUE, value |-> tgt, loc |-> <<>>]
            nkey == IF Len(parts) > 1 THEN Join(rest, ".") ELSE key
        IN  IF IsNullish(holder.value) THEN Outcome("throw", tgt, nkey, Undef)
            ELSE IF holder.value.t = "obj" /\ top \in DOMAIN holder.value.f
              THEN Outcome("ok",
                           ReplaceAt(tgt, holder.loc,
                                     Obj([k \in DOMAIN holder.value.f \ {top} |->
                                            holder.value.f[k]])),
                           nkey, holder.value.f[top])
            ELSE IF holder.value.t = "arr" /\ IsCanonIndex(top)
                    /\ parseInt(top) < Len(holder.value.e)
              THEN Outcome("ok",
                           ReplaceAt(tgt, holder.loc, PutChild(holder.value, top, Undef)),
                           nkey, Child(holder.value, top))
            ELSE Outcome("ok", tgt, nkey, Undef)

\* Glue.prototype.push, lines before notify; hasKey is FALSE for push(value)
pushTarget(tgt, hasKey, key, item) ==
  LET k == IF hasKey THEN key ELSE <<>>
      coll == IF hasKey THEN Locate(key, tgt)
              ELSE [found |-> TRUE, value |-> tgt, loc |-> <<>>]
  IN  IF coll.value.t # "arr" THEN Outcome("throw", tgt, k, Undef)
      ELSE Outcome("ok", ReplaceAt(tgt, coll.loc, Arr(Append(coll.value.e, item))),
                   k, Undef)

\* Glue.prototype.pop, lines before notify
popTarget(tgt, key) ==
  LET coll == Locate(key, tgt)
      n == Len(coll.value.e)
  IN  IF coll.value.t # "arr" THEN Outcome("throw", tgt, key, Undef)
      ELSE IF n = 0 THEN Outcome("ok", tgt, key, Undef)
      ELSE Outcome("ok", ReplaceAt(tgt, coll.loc, Arr(SubSeq(coll.value.e, 1, n - 1))),
                   key, coll.value.e[n])

\* Glue.prototype.insert, lines before notify
insertTarget(tgt, key, index, value) ==
  LET coll == Locate(key, tgt)
  IN  IF coll.value.t # "arr" THEN Outcome("throw", tgt, key, Undef)
      ELSE Outcome("ok",
                   ReplaceAt(tgt, coll.loc, Arr(Splice(coll.value.e, index, 0, <<value>>))),
                   key, Undef)

\* the predicates handed to filter
Predicates == {"ne1", "ne2", "none"}
Holds(filterBy, v) ==
  IF filterBy = "ne1" THEN ~(v.t = "num" /\ v.n = 1)
  ELSE IF filterBy = "ne2" THEN ~(v.t = "num" /\ v.n = 2)
  ELSE FALSE

\* Glue.prototype.filter, lines before notify: the backwards loop splices
\* out every element the predicate rejects.  A collection without a length
\* (an object, a number) is left alone.
filterTarget(tgt, key, filterBy) ==
  LET coll == IF key = <<>> THEN [found |-> TRUE, value |-> tgt, loc |-> <<>>]
              ELSE Locate(key, tgt)
  IN  IF IsNullish(coll.value) THEN Outcome("throw", tgt, key, Undef)
      ELSE IF coll.value.t # "arr" THEN Outcome("ok", tgt, key, Undef)
      ELSE Outcome("ok",
                   ReplaceAt(tgt, coll.loc,
                             Arr(SelectSeq(coll.value.e, LAMBDA v : Holds(filterBy, v)))),
                   key, Undef)

\* the key functions handed to sortBy, on numbers
KeyFns == {"id", "neg", "half"}
KeyOf(sortBy, v) ==
  IF sortBy = "id" THEN v.n
  ELSE IF sortBy = "neg" THEN 0 - v.n
  ELSE v.n \div 2

\* an insertion that puts an element before those of equal key
RECURSIVE InsertBeforeEqual(_, _, _)
InsertBeforeEqual(sorted, v, sortBy) ==
  IF sorted = <<>> THEN <<v>>
  ELSE IF KeyOf(sortBy, sorted[Len(sorted)]) < KeyOf(sortBy, v) THEN Append(sorted, v)
  ELSE Append(InsertBeforeEqual(SubSeq(sorted, 1, Len(sorted) - 1), v, sortBy),
              sorted[Len(sorted)])

\* utils.sortBy: a stable sort, ascending by the key function
RECURSIVE InsertSorted(_, _, _)
InsertSorted(sorted, v, sortBy) ==
  IF sorted = <<>> THEN <<v>>
  ELSE IF KeyOf(sortBy, sorted[Len(sorted)]) <= KeyOf(sortBy, v) THEN Append(sorted, v)
  ELSE Append(InsertSorted(SubSeq(sorted, 1, Len(sorted) - 1), v, sortBy),
              sorted[Len(sorted)])
RECURSIVE utilsSortBy(_, _)
utilsSortBy(e, sortBy) ==
  IF e = <<>> THEN <<>>
  ELSE InsertSorted(utilsSortBy(SubSeq(e, 1, Len(e) - 1), sortBy), e[Len(e)], sortBy)

\* Glue.prototype.sortBy, lines before notify.  utils.map yields [] for a
\* value that is neither an array nor an object, and utils.sortBy spreads
\* its argument, which throws for an object.
sortByTarget(tgt, key, sortBy, strict) ==
  LET coll == Locate(key, tgt)
      sorted == IF coll.value.t = "arr" THEN Arr(utilsSortBy(coll.value.e, sortBy))
                ELSE Arr(<<>>)
      w == Assign(tgt, Locate(KeyPrefix(key), tgt), KeySuffix(key), sorted, strict)
  IN  IF coll.value.t = "obj" THEN Outcome("throw", tgt, key, Undef)
      ELSE IF key = <<>> THEN Outcome("ok", sorted, key, sorted)
      ELSE Outcome(w.status, w.target, key, sorted)

IsPrefix(p, q) == Len(p) <= Len(q) /\ SubSeq(q, 1, Len(p)) = p

\* a swap that makes only its first write
swapTargetOneWay(tgt, loc1, loc2, strict) ==
  LET bs1 == baseKeyAndSuffix(loc1, tgt)
      w1 == Assign(tgt, bs1.base, bs1.suffix, get(loc2, tgt), strict)
  IN  [Outcome(w1.status, w1.target, loc1, Undef)
       EXCEPT !.keys = IF loc1 # loc2 THEN <<loc1, loc2>> ELSE <<loc1>>]

\* Glue.prototype.swap, lines before notify.  Both containers are looked up
\* before the first write; the second write goes to the container found
\* then, which the first write may have detached from the target.
swapTarget(tgt, loc1, loc2, strict) ==
  LET value1 == get(loc1, tgt)
      value2 == get(loc2, tgt)
      bs1 == baseKeyAndSuffix(loc1, tgt)
      bs2 == baseKeyAndSuffix(loc2, tgt)
      w1 == Assign(tgt, bs1.base, bs1.suffix, value2, strict)
      detached == /\ ~IsNullish(bs1.base.value)
                  /\ bs1.base.value.t # "num"
                  /\ IsPrefix(Append(bs1.base.loc, bs1.suffix), bs2.base.loc)
      w2 == IF detached /\ ~IsNullish(bs2.base.value) /\ bs2.base.value.t # "num"
            THEN [status |-> "ok", target |-> w1.target]
            ELSE Assign(w1.target, bs2.base, bs2.suffix, value1, strict)
  IN  [Outcome(IF w1.status # "ok" THEN w1.status ELSE w2.status,
               IF w1.status # "ok" THEN tgt ELSE w2.target, loc1, Undef)
       EXCEPT !.keys = IF loc1 # loc2 THEN <<loc1, loc2>> ELSE <<loc1>>]

\* ------------------------------------------------------------------------
\* The state
\* ------------------------------------------------------------------------
VARIABLES
  target,      \* this.target
  listeners,   \* this.listeners
  calls,       \* the observer calls made by the last mutating call, in order
  last,        \* the last call of the API: its arguments and how it ended
  pre,         \* target and listeners when the last call began
  prev,        \* last and calls as they were when the last call began
  registered,  \* per callback, the addObserver call that registered it
  removedKeys, \* keys named by a removeObserver(key) and not registered since
  removals,    \* the removeObserver and destroy calls so far, each with the
               \* value of nAdds
  nAdds,       \* the number of addObserver calls so far
  nMutations,  \* the number of mutating calls so far
  stack,       \* the notify calls in progress, the innermost last
  mutated      \* the target as the outermost mutating call wrote it, before
               \* its first notify

vars == <<target, listeners, calls, last, pre, prev, registered, removedKeys,
          removals, nAdds, nMutations, stack, mutated>>
nesting == <<stack, mutated>>

\* ------------------------------------------------------------------------
\* Inputs
\* ------------------------------------------------------------------------
P_a == <<"a">>
P_x == <<"x">>
P_xy == <<"x", ".", "y">>
P_r == <<"r">>
P_r0 == <<"r", "[", "0", "]">>
P_r1 == <<"r", "[", "1", "]">>
P_qz == <<"q", ".", "z">>
G_r == <<"r", "[", "]">>
Star == <<"*">>
P_r3 == <<"r", "[", "3", "]">>
P_ab == <<"a", ".", "b">>
P_a_b == <<"a", " ", "b">>
P_m0 == <<"m", "[", "0", "]">>
P_nz == <<"n", ".", "z">>
P_m02 == <<"m", "[", "0", "]", "[", "2", "]">>
G_m02 == P_m02 \o <<"[", "]">>

\* new Glue({a: 1, x: {y: 1}, r: [2, 1, 3], m: [[1, 2]], n: null})
InitialTarget ==
  Obj([k \in {P_a, P_x, P_r, <<"m">>, <<"n">>} |->
         IF k = P_a THEN Num(1)
         ELSE IF k = <<"n">> THEN Null
         ELSE IF k = P_x THEN Obj([j \in {<<"y">>} |-> Num(1)])
         ELSE IF k = P_r THEN Arr(<<Num(2), Num(1), Num(3)>>)
         ELSE Arr(<< Arr(<<Num(1), Num(2)>>) >>)])

\* the arguments of the addObserver calls: glue.addObserver(callback),
\* glue.addObserver(key, callback), glue.addObserver(key, context, callback)
AddArg(hasKey, key, hasContext, context) ==
  [hasKey |-> hasKey, key |-> key, hasContext |-> hasContext, context |-> context]
AddInputs ==
  { AddArg(FALSE, Star, FALSE, "target"),
    AddArg(TRUE, P_a, FALSE, "target"),
    AddArg(TRUE, P_a \o <<":", "set">>, FALSE, "target"),
    AddArg(TRUE, P_a \o <<":", "set">>, TRUE, "c1"),
    AddArg(TRUE, P_xy, FALSE, "target"),
    AddArg(TRUE, P_r \o <<":", "push", ",", "pop">>, FALSE, "target"),
    AddArg(TRUE, P_r1, FALSE, "target"),
    AddArg(TRUE, G_r, FALSE, "target"),
    AddArg(TRUE, G_r \o <<":", "push">>, TRUE, "c1"),
    AddArg(TRUE, G_m02, FALSE, "target"),
    AddArg(TRUE, P_a \o <<":", "set", ",", " ">> \o P_xy \o <<":", "remove">>,
           FALSE, "target") }

\* the arguments of the removeObserver calls: glue.removeObserver(),
\* glue.removeObserver(key), glue.removeObserver(context),
\* glue.removeObserver(key, context); the context "callback" is the callback
\* registered last, passed in the place of the context
RemoveInputs ==
  { AddArg(FALSE, <<>>, FALSE, "target"),
    AddArg(TRUE, <<>>, FALSE, "target"),
    AddArg(TRUE, P_a, FALSE, "target"),
    AddArg(TRUE, P_a \o <<":", "set">>, FALSE, "target"),
    AddArg(TRUE, P_r \o <<":", "push">>, FALSE, "target"),
    AddArg(TRUE, G_r, FALSE, "target"),
    AddArg(FALSE, <<>>, TRUE, "c1"),
    AddArg(TRUE, P_a, TRUE, "c1"),
    AddArg(TRUE, P_a \o <<":", "set">>, TRUE, "c1"),
    AddArg(TRUE, P_a, TRUE, "callback") }

\* values handed to set, push and insert
Values == {Num(1), Arr(<<Num(3)>>)}

SetPaths == {P_a, P_x, P_xy, P_r, P_r1, P_qz, P_ab, P_a_b, P_nz, P_m02}
RemovePaths == {P_a, P_xy, P_r, P_r0, P_r3, P_qz}
SwapPaths == {<<P_a, P_a>>, <<P_a, P_xy>>, <<P_r0, P_r1>>, <<P_x, P_xy>>,
              <<P_a, P_r>>, <<P_a, P_qz>>, <<P_r3, P_r3>>, <<P_r, <<"m">>>>}
\* the arguments of push, insert, filter and sortBy: on the array r, and on
\* a, which is no array
PushInputs == {<<P_r, Num(3)>>, <<P_r, Undef>>, <<P_a, Num(3)>>}
PopPaths == {P_r, P_a}
InsertInputs == {<<P_r, 0, Num(3)>>, <<P_r, 1, Num(3)>>, <<P_a, 0, Num(3)>>}
\* writes made on glue.target itself, a.s. glue.target.a = 2: the location
\* written and the value
DirectInputs == {<< << P_a >>, Num(2) >>,
                 << << P_x, <<"y">> >>, Num(2) >>,
                 << << P_r, <<"1">> >>, Num(5) >>}

\* the paths handed to get: the empty path and "*", paths that resolve, paths
\* through an absent link (q), a null link (n) and a number (a), and a path
\* that ends at null
GetPaths == {<<>>, Star, P_a, P_xy, P_r1, P_m0, P_qz, P_nz, P_ab, <<"n">>,
             <<"n", "[", "0", "]">>, <<"q", "[", "0", "]", ".", "z">>,
             P_nz \o <<".", "w">>, P_r3 \o <<".", "z">>}
FilterInputs == {<<P_r, "ne1">>, <<P_r, "ne2">>, <<P_r, "none">>, <<P_a, "ne1">>,
                 <<P_x, "ne1">>, <<P_m0, "ne1">>}
SortByInputs == {<<P_r, "id">>, <<P_r, "neg">>, <<P_r, "half">>, <<P_a, "id">>}

RECURSIVE Bounded(_)
Bounded(v) ==
  IF v.t = "arr" THEN Len(v.e) <= MaxArrLen /\ \A i \in 1..Len(v.e) : Bounded(v.e[i])
  ELSE IF v.t = "obj" THEN \A k \in DOMAIN v.f : Bounded(v.f[k])
  ELSE TRUE

Call(name) ==
  [call |-> name, key |-> <<>>, key2 |-> <<>>, hasKey |-> FALSE, value |-> Undef,
   index |-> 0, fn |-> "", context |-> "", hasContext |-> FALSE,
   thrown |-> "none", thrower |-> 0, ret |-> Undef]

Init ==
  /\ target = InitialTarget
  /\ listeners = resetListeners
  /\ calls = <<>>
  /\ last = Call("new")
  /\ pre = [target |-> InitialTarget, listeners |-> resetListeners]
  /\ prev = [last |-> Call("new"), calls |-> <<>>, target |-> InitialTarget]
  /\ registered = <<>>
  /\ removedKeys = {}
  /\ nAdds = 0
  /\ removals = <<>>
  /\ nMutations = 0
  /\ stack = <<>>
  /\ mutated = InitialTarget

IsMutation(name) ==
  name \notin {"new", "addObserver", "removeObserver", "get", "direct", "destroy"}

\* prev remembers the last call, and the target it began with, only when it
\* was a mutating call
Remember ==
  /\ pre' = [target |-> target, listeners |-> listeners]
  /\ prev' = IF IsMutation(last.call)
             THEN [last |-> last, calls |-> calls, target |-> pre.target]
             ELSE [last |-> Call("new"), calls |-> <<>>, target |-> InitialTarget]

\* ------------------------------------------------------------------------
\* addObserver and removeObserver
\* ------------------------------------------------------------------------
\* glue.addObserver([key], [context], callback) with a callback not
\* registered before
AddObserver ==
  /\ \E in \in AddInputs :
       LET ko == keysAndOperations(in.key)
           named == IF ko.keys = << <<>> >> THEN << <<"*">> >> ELSE ko.keys
       IN  /\ listeners' = add(listeners, in.key, nAdds + 1, in.context)
           /\ registered' = Append(registered,
                                   [key |-> in.key, keys |-> named,
                                    operations |-> ko.operations,
                                    context |-> in.context])
           /\ removedKeys' = removedKeys \ {named[i] : i \in 1..Len(named)}
           /\ last' = [Call("addObserver") EXCEPT
                         !.key = in.key, !.hasKey = in.hasKey,
                         !.context = in.context, !.hasContext = in.hasContext]
  /\ nAdds' = nAdds + 1
  /\ calls' = <<>>
  /\ Remember
  /\ UNCHANGED <<target, removals, nMutations>>
  /\ UNCHANGED nesting

\* glue.removeObserver([key], [context])
RemoveObserver ==
  /\ \E in \in RemoveInputs :
       LET ko == keysAndOperations(normalizeKey(in.key))
       IN  /\ listeners' = remove(listeners, normalizeKey(in.key),
                                  in.hasContext, in.context)
           /\ removedKeys' =
                IF in.hasKey /\ ~in.hasContext /\ isEmpty(ko.operations)
                THEN removedKeys \cup {ko.keys[i] : i \in 1..Len(ko.keys)}
                ELSE removedKeys
           /\ last' = [Call("removeObserver") EXCEPT
                         !.key = in.key, !.hasKey = in.hasKey,
                         !.context = in.context, !.hasContext = in.hasContext]
           /\ removals' = Append(removals,
                                  [call |-> "removeObserver",
                                   key |-> in.key, hasKey |-> in.hasKey,
                                   hasContext |-> in.hasContext,
                                   context |-> in.context, adds |-> nAdds])
  /\ calls' = <<>>
  /\ Remember
  /\ UNCHANGED <<target, registered, nAdds, nMutations>>
  /\ UNCHANGED nesting

\* ------------------------------------------------------------------------
\* The mutating methods
\* ------------------------------------------------------------------------
\* The observer calls of one notify pass, each carrying the number of its pass
Tagged(one, i) ==
  [calls |-> [j \in 1..Len(one.calls) |->
                [key |-> one.calls[j].key, callback |-> one.calls[j].callback,
                 context |-> one.calls[j].context,
                 operation |-> one.calls[j].operation,
                 value |-> one.calls[j].value, index |-> one.calls[j].index,
                 pass |-> i]],
   error |-> one.error]

\* a mutating call that notifies for its first key only
NotifyPassesFirst(ls, tgt, operation, keys, i, oldTargetClone, reverse) ==
  IF i > 1 \/ keys = <<>> THEN Done(<<>>)
  ELSE Tagged(notify(ls, tgt, operation, keys[1], oldTargetClone, reverse), 1)

\* The notify calls of one mutating call, one per key of keys, in order: a
\* pass that throws ends the call.
RECURSIVE NotifyPasses(_, _, _, _, _, _, _)
NotifyPasses(ls, tgt, operation, keys, i, oldTargetClone, reverse) ==
  IF i > Len(keys) THEN Done(<<>>)
  ELSE Then(Tagged(notify(ls, tgt, operation, keys[i], oldTargetClone, reverse), i),
            NotifyPasses(ls, tgt, operation, keys, i + 1, oldTargetClone, reverse))

\* How a mutating call ends.  callListener contains no exception: the t-th
\* observer call may throw, which ends the call there (t = 0: none throws).
\* thrown is "before" for a TypeError of the mutation itself, "notify" for
\* one inside invokeGeneric, "callback" for an observer's.
HowThrown(out, plan, t) ==
  IF out.status = "throw" THEN "before"
  ELSE IF t > 0 THEN "callback"
  ELSE IF plan.error THEN "notify"
  ELSE "none"

\* an ending in which the exception of a callback is contained and the
\* remaining observers are still called
FinishContained(rec, out, plan, returnsGet) ==
  /\ out.status # "expando"
  /\ Bounded(out.target)
  /\ \E t \in 0..Len(plan.calls) :
       /\ calls' = plan.calls
       /\ last' = [rec EXCEPT !.thrown = HowThrown(out, plan, t), !.thrower = t]
  /\ target' = out.target
  /\ nMutations' = nMutations + 1
  /\ Remember
  /\ mutated' = out.target
  /\ UNCHANGED <<listeners, registered, removedKeys, removals, nAdds, stack>>

\* an ending that puts the target back when a callback throws
FinishRolledBack(rec, out, plan, returnsGet) ==
  /\ out.status # "expando"
  /\ Bounded(out.target)
  /\ \E t \in 0..Len(plan.calls) :
       /\ calls' = IF t = 0 THEN plan.calls ELSE SubSeq(plan.calls, 1, t)
       /\ last' = [rec EXCEPT
                     !.thrown = HowThrown(out, plan, t),
                     !.thrower = t,
                     !.ret = IF HowThrown(out, plan, t) # "none" THEN Undef
                             ELSE IF returnsGet THEN get(baseKey(rec.key), out.target)
                             ELSE out.ret]
       /\ target' = IF t > 0 THEN target ELSE out.target
  /\ nMutations' = nMutations + 1
  /\ Remember
  /\ mutated' = out.target
  /\ UNCHANGED <<listeners, registered, removedKeys, removals, nAdds, stack>>

Finish(rec, out, plan, returnsGet) ==
  /\ out.status # "expando"
  /\ Bounded(out.target)
  /\ \E t \in 0..Len(plan.calls) :
       /\ calls' = IF t = 0 THEN plan.calls ELSE SubSeq(plan.calls, 1, t)
       /\ last' = [rec EXCEPT
                     !.thrown = HowThrown(out, plan, t),
                     !.thrower = t,
                     !.ret = IF HowThrown(out, plan, t) # "none" THEN Undef
                             ELSE IF returnsGet THEN get(baseKey(rec.key), out.target)
                             ELSE out.ret]
  /\ target' = out.target
  /\ nMutations' = nMutations + 1
  /\ Remember
  /\ mutated' = out.target
  /\ UNCHANGED <<listeners, registered, removedKeys, removals, nAdds, stack>>

\* a mutating call that compares with the snapshot taken at construction
MutatingCallStale(rec, out, operation, reverse, returnsGet) ==
  Finish(rec, out,
         IF out.status = "ok"
         THEN NotifyPasses(listeners, out.target, operation, out.keys, 1,
                           deepClone(InitialTarget), reverse)
         ELSE Done(<<>>),
         returnsGet)

\* What a mutating call does once its arguments are resolved: take the old
\* clone, mutate (out), notify for each key of out.keys, return.
MutatingCall(rec, out, operation, reverse, returnsGet) ==
  Finish(rec, out,
         IF out.status = "ok"
         THEN NotifyPasses(listeners, out.target, operation, out.keys, 1,
                           deepClone(target), reverse)
         ELSE Done(<<>>),
         returnsGet)

\* Whether the module runs in strict mode is the build's choice; it shows
\* only when a write goes to a primitive.
StrictChoices(key) ==
  IF Locate(KeyPrefix(key), target).value.t = "num" THEN BOOLEAN ELSE {FALSE}

\* glue.set(key, value)
Set ==
  \E key \in SetPaths, value \in Values : \E strict \in StrictChoices(key) :
    MutatingCall([Call("set") EXCEPT !.key = key, !.hasKey = TRUE, !.value = value],
                 setTarget(target, key, value, strict), "set", FALSE, FALSE)

\* glue.remove(key)
Remove ==
  \E key \in RemovePaths :
    MutatingCall([Call("remove") EXCEPT !.key = key, !.hasKey = TRUE],
                 removeTarget(target, key), "remove", FALSE, FALSE)

\* glue.swap(loc1, loc2)
Swap ==
  \E locs \in SwapPaths :
  \E strict \in StrictChoices(locs[1]) \cup StrictChoices(locs[2]) :
    MutatingCall([Call("swap") EXCEPT !.key = locs[1], !.key2 = locs[2],
                                      !.hasKey = TRUE],
                 swapTarget(target, locs[1], locs[2], strict), "swap", FALSE, FALSE)

\* glue.push(key, value)
Push ==
  \E in \in PushInputs :
    MutatingCall([Call("push") EXCEPT !.key = in[1], !.hasKey = TRUE, !.value = in[2]],
                 pushTarget(target, TRUE, in[1], in[2]), "push", FALSE, FALSE)

\* glue.pop(key)
Pop ==
  \E key \in PopPaths :
    MutatingCall([Call("pop") EXCEPT !.key = key, !.hasKey = TRUE],
                 popTarget(target, key), "pop", FALSE, FALSE)

\* glue.insert(key, index, value)
Insert ==
  \E in \in InsertInputs :
    MutatingCall([Call("insert") EXCEPT !.key = in[1], !.hasKey = TRUE,
                                        !.index = in[2], !.value = in[3]],
                 insertTarget(target, in[1], in[2], in[3]), "insert", FALSE, FALSE)

\* a filter that notifies in ascending order
FilterForward ==
  \E in \in FilterInputs :
    MutatingCall([Call("filter") EXCEPT !.key = in[1], !.hasKey = TRUE, !.fn = in[2]],
                 filterTarget(target, in[1], in[2]), "filter", FALSE, TRUE)

\* glue.filter(key, filterBy)
Filter ==
  \E in \in FilterInputs :
    MutatingCall([Call("filter") EXCEPT !.key = in[1], !.hasKey = TRUE, !.fn = in[2]],
                 filterTarget(target, in[1], in[2]), "filter", TRUE, TRUE)

AllNumbers(v) == v.t = "arr" => \A i \in 1..Len(v.e) : v.e[i].t = "num"

\* glue.sortBy(key, sortBy); it notifies as "filter"
SortBy ==
  \E in \in SortByInputs : \E strict \in StrictChoices(in[1]) :
    /\ AllNumbers(get(in[1], target))
    /\ MutatingCall([Call("sortBy") EXCEPT !.key = in[1], !.hasKey = TRUE, !.fn = in[2]],
                    sortByTarget(target, in[1], in[2], strict), "filter", TRUE, FALSE)

\* Observers are registered and removed, then the target is mutated.
Next ==
  \/ nAdds < MaxAdds /\ nMutations = 0 /\ AddObserver
  \/ Len(removals) < MaxRemoves /\ nMutations = 0 /\ RemoveObserver
  \/ nMutations < MaxMutations /\ Set
  \/ nMutations < MaxMutations /\ Remove
  \/ nMutations < MaxMutations /\ Swap
  \/ nMutations < MaxMutations /\ Push
  \/ nMutations < MaxMutations /\ Pop
  \/ nMutations < MaxMutations /\ Insert
  \/ nMutations < MaxMutations /\ Filter
  \/ nMutations < MaxMutations /\ SortBy

Spec == Init /\ [][Next]_vars

\* glue.get(key): it resolves the key against the target and touches nothing
Get ==
  /\ \E key \in GetPaths :
       LET value == get(key, target)
       IN  last' = [Call("get") EXCEPT
                      !.key = key, !.hasKey = TRUE,
                      !.thrown = IF value = TypeError THEN "before" ELSE "none",
                      !.ret = IF value = TypeError THEN Undef ELSE value]
  /\ calls' = <<>>
  /\ Remember
  /\ UNCHANGED <<target, listeners, registered, removedKeys, removals, nAdds,
                 nMutations>>
  /\ UNCHANGED nesting

\* Observers are registered, then set is called repeatedly.
NextRepeat ==
  \/ nAdds < MaxRepeatAdds /\ nMutations = 0 /\ AddObserver
  \/ nMutations < MaxRepeats /\ Set

SpecRepeat == Init /\ [][NextRepeat]_vars

\* glue.target is public: a statement outside the library writes into it.
\* No code of the library runs.
DirectWrite ==
  /\ \E in \in DirectInputs :
       /\ target' = ReplaceAt(target, in[1], in[2])
       /\ last' = [Call("direct") EXCEPT !.value = in[2]]
  /\ calls' = <<>>
  /\ Remember
  /\ UNCHANGED <<listeners, registered, removedKeys, removals, nAdds, nMutations>>
  /\ UNCHANGED nesting

\* Observers are registered, the target is written directly once, then a
\* mutating method is called.
NextDirect ==
  \/ nAdds < MaxAdds /\ nMutations = 0 /\ AddObserver
  \/ nMutations = 0 /\ target = InitialTarget /\ DirectWrite
  \/ nMutations < MaxMutations /\ Set
  \/ nMutations < MaxMutations /\ Push

SpecDirect == Init /\ [][NextDirect]_vars

\* a destroy that leaves the registry as it is
DestroyKeeping ==
  /\ last' = Call("destroy")
  /\ removals' = Append(removals,
                         [call |-> "destroy", key |-> <<>>, hasKey |-> FALSE,
                          hasContext |-> FALSE, context |-> "target",
                          adds |-> nAdds])
  /\ calls' = <<>>
  /\ Remember
  /\ UNCHANGED <<target, listeners, registered, removedKeys, nAdds, nMutations>>
  /\ UNCHANGED nesting

\* glue.destroy(): resetListeners, then the events of this instance are
\* dropped from Glue.events, which holds none
Destroy ==
  /\ listeners' = resetListeners
  /\ last' = Call("destroy")
  /\ removals' = Append(removals,
                         [call |-> "destroy", key |-> <<>>, hasKey |-> FALSE,
                          hasContext |-> FALSE, context |-> "target",
                          adds |-> nAdds])
  /\ calls' = <<>>
  /\ Remember
  /\ UNCHANGED <<target, registered, removedKeys, nAdds, nMutations>>
  /\ UNCHANGED nesting

\* Observers are registered and the instance is destroyed, in any order; then
\* a mutating method is called.
NextDestroy ==
  \/ nAdds < MaxAdds /\ nMutations = 0 /\ AddObserver
  \/ Len(removals) < MaxRemoves /\ nMutations = 0 /\ Destroy
  \/ nMutations < MaxMutations /\ Set
  \/ nMutations < MaxMutations /\ Push

SpecDestroy == Init /\ [][NextDestroy]_vars

\* Observers are registered, the target is written, and it is read at any time.
NextRead ==
  \/ nAdds < MaxRepeatAdds /\ nMutations = 0 /\ AddObserver
  \/ nMutations < MaxMutations /\ Set
  \/ Get

SpecRead == Init /\ [][NextRead]_vars

\* ------------------------------------------------------------------------
\* Observers that call the API: notify, one observer call at a time
\* ------------------------------------------------------------------------
\* What a callback does each time it is invoked: nothing, glue.set(key,
\* value), glue.set(key, v) with v 1 or 2 and different from the value at
\* key, glue.addObserver(key, callback) with a new callback that does
\* nothing, or glue.removeObserver(key) (removeObserver() for the empty key).
Does(kind, key, value) == [kind |-> kind, key |-> key, value |-> value]
Idle == Does("none", <<>>, Undef)
Actor(key, does) == [key |-> key, does |-> does]
ActorInputs ==
  { Actor(P_a, Idle),
    Actor(P_xy, Idle),
    Actor(Star, Idle),
    Actor(G_r, Idle),
    Actor(P_a, Does("set", P_a, Num(2))),
    Actor(P_a, Does("toggle", P_a, Undef)),
    Actor(P_a, Does("set", P_xy, Num(2))),
    Actor(P_a, Does("addObserver", P_a, Undef)),
    Actor(P_a, Does("removeObserver", <<>>, Undef)),
    Actor(P_r, Does("addObserver", G_r, Undef)),
    Actor(P_r, Does("removeObserver", G_r, Undef)) }

\* glue.addObserver(key, callback) with a callback that acts as does
AddActor ==
  /\ stack = <<>>
  /\ \E in \in ActorInputs :
       /\ listeners' = add(listeners, in.key, nAdds + 1, "target")
       /\ registered' = Append(registered,
                               [key |-> in.key, keys |-> << in.key >>,
                                operations |-> <<>>, context |-> "target",
                                does |-> in.does, by |-> 0])
       /\ last' = [Call("addObserver") EXCEPT !.key = in.key, !.hasKey = TRUE,
                                              !.context = "target"]
  /\ nAdds' = nAdds + 1
  /\ calls' = <<>>
  /\ Remember
  /\ UNCHANGED <<target, removedKeys, removals, nMutations, stack, mutated>>

\* the value read for the observer calls of one key (and one index)
NoGroup == [key |-> <<>>, index |-> -3, value |-> Undef]

\* One call of notify in progress: its arguments, the two snapshots, the
\* loop it is in ("specific", "permutations", "affected"), the observer
\* calls that loop has still to make, and whether the loop ends in a
\* TypeError.  id is the number of the observer call whose callback made the
\* mutating call, 0 for a call from outside.
Frame(id, operation, keys, pass, oldTargetClone, reverse, ls, tgt) ==
  [id |-> id, operation |-> operation, keys |-> keys, pass |-> pass,
   oldTargetClone |-> oldTargetClone, currentTargetClone |-> deepClone(tgt),
   reverse |-> reverse, phase |-> "specific",
   pending |-> NotifySpecific(ls, tgt, operation, oldTargetClone, deepClone(tgt)),
   error |-> FALSE, group |-> NoGroup]

Top == stack[Len(stack)]

\* objects and arrays are handed over by reference
IsReference(v) == v.t \in {"obj", "arr"}

\* the element a message of a generic key with an index is about
ElementKey(c) == baseKey(c.key) \o <<"[">> \o NatToStr(c.index) \o <<"]">>

\* a message value read anew for every observer call
MessageValueLive(f, c, tgt) ==
  IF f.phase = "specific" THEN get(c.key, tgt)
  ELSE IF f.phase = "permutations" THEN get(ElementKey(c), tgt)
  ELSE Child(get(baseKey(c.key), tgt), NatToStr(c.index))

\* message.value of the observer call c of frame f.  The first loop reads
\* self.get(k) once per key, before the listeners of the key are called;
\* the loop over the permutations reads it for every listener; the loop
\* over the affected keys reads currentArray[index] once per index.  A
\* value that is an object or an array is the live one.
MessageValue(f, c, tgt) ==
  IF /\ f.phase # "permutations"
     /\ f.group.key = c.key /\ f.group.index = c.index
     /\ ~IsReference(f.group.value)
  THEN f.group.value
  ELSE IF f.phase = "specific" THEN get(c.key, tgt)
  ELSE IF f.phase = "permutations" THEN get(ElementKey(c), tgt)
  ELSE Child(get(baseKey(c.key), tgt), NatToStr(c.index))

\* the value a callback hands to set
SetValue(does, tgt) ==
  IF does.kind = "set" THEN does.value
  ELSE IF get(does.key, tgt) = Num(1) THEN Num(2) ELSE Num(1)

\* a callback whose set is ignored while a notify is in progress
ActGuarded(does, under, n) ==
  /\ stack' = under
  /\ UNCHANGED <<target, listeners, registered, nAdds>>

\* The body of the callback of observer call n; under is the stack with
\* that call taken off the list of its frame.
Act(does, under, n) ==
  IF does.kind = "none" THEN
    /\ stack' = under
    /\ UNCHANGED <<target, listeners, registered, nAdds>>
  ELSE IF does.kind = "addObserver" THEN
    /\ listeners' = add(listeners, does.key, nAdds + 1, "target")
    /\ registered' = Append(registered,
                            [key |-> does.key, keys |-> << does.key >>,
                             operations |-> <<>>, context |-> "target",
                             does |-> Idle, by |-> n])
    /\ nAdds' = nAdds + 1
    /\ stack' = under
    /\ UNCHANGED target
  ELSE IF does.kind = "removeObserver" THEN
    /\ listeners' = remove(listeners, normalizeKey(does.key), FALSE, "target")
    /\ stack' = under
    /\ UNCHANGED <<target, registered, nAdds>>
  ELSE
    LET out == setTarget(target, does.key, SetValue(does, target), FALSE)
    IN  /\ Len(stack) < MaxDepth
        /\ out.status = "ok"
        /\ target' = out.target
        /\ stack' = Append(under,
                           Frame(n, "set", out.keys, 1, deepClone(target), FALSE,
                                 listeners, out.target))
        /\ UNCHANGED <<listeners, registered, nAdds>>

\* callListener: the next observer call of the innermost notify, and what
\* its callback does
Deliver ==
  /\ stack # <<>>
  /\ Top.pending # <<>>
  /\ LET f == Top
         c == Head(f.pending)
         value == MessageValue(f, c, target)
         rest == [f EXCEPT !.pending = Tail(f.pending),
                           !.group = [key |-> c.key, index |-> c.index,
                                      value |-> value]]
     IN  /\ calls' = Append(calls,
                            [key |-> c.key, callback |-> c.callback,
                             context |-> c.context, operation |-> c.operation,
                             value |-> value, index |-> c.index,
                             pass |-> f.pass, depth |-> Len(stack), frame |-> f.id,
                             before |-> target])
         /\ Act(registered[c.callback].does,
                [stack EXCEPT ![Len(stack)] = rest], Len(calls) + 1)
  /\ UNCHANGED <<last, pre, prev, removedKeys, removals, nMutations, mutated>>

\* The innermost notify goes on when a loop has made its calls: from the
\* specific keys to the permutations of its key, from these to the affected
\* generic keys, and, in swap, from the first notify to the second.  The
\* registry and the target are read as they are then.
Advance ==
  /\ stack # <<>>
  /\ Top.pending = <<>>
  /\ ~Top.error
  /\ Top.phase = "affected" => Top.pass < Len(Top.keys)
  /\ LET f == Top
         key == f.keys[f.pass]
         affected == NotifyAffected(
                       SelectSeq(listeners.generic, LAMBDA en : KeyMatches(key, en.key)),
                       1, target, f.operation, f.oldTargetClone,
                       f.currentTargetClone, f.reverse)
         next ==
           IF f.phase = "specific" THEN
             [f EXCEPT !.phase = "permutations", !.group = NoGroup,
                       !.pending = NotifyPermutations(listeners, target, f.operation,
                                                      key, f.oldTargetClone,
                                                      f.currentTargetClone)]
           ELSE IF f.phase = "permutations" THEN
             [f EXCEPT !.phase = "affected", !.group = NoGroup,
                       !.pending = affected.calls, !.error = affected.error]
           ELSE Frame(f.id, f.operation, f.keys, f.pass + 1, f.oldTargetClone,
                      f.reverse, listeners, target)
     IN  stack' = [stack EXCEPT ![Len(stack)] = next]
  /\ UNCHANGED <<target, listeners, calls, last, pre, prev, registered, removedKeys,
                 removals, nAdds, nMutations, mutated>>

\* The innermost notify ends: it returns to the callback that called set,
\* or to the caller of the mutating method; a TypeError of invokeGeneric
\* passes through every callback and every notify in progress.
EndNotify ==
  /\ stack # <<>>
  /\ Top.pending = <<>>
  /\ Top.error \/ (Top.phase = "affected" /\ Top.pass = Len(Top.keys))
  /\ IF Top.error
     THEN /\ stack' = <<>>
          /\ last' = [last EXCEPT !.thrown = "notify"]
     ELSE /\ stack' = SubSeq(stack, 1, Len(stack) - 1)
          /\ UNCHANGED last
  /\ UNCHANGED <<target, listeners, calls, pre, prev, registered, removedKeys,
                 removals, nAdds, nMutations, mutated>>

\* A mutating method called from outside while no notify is in progress: the
\* old clone is taken, the target is written, notify begins.
Begin(rec, out, operation, reverse) ==
  /\ stack = <<>>
  /\ out.status # "expando"
  /\ Bounded(out.target)
  /\ target' = out.target
  /\ mutated' = out.target
  /\ stack' = IF out.status = "ok"
              THEN << Frame(0, operation, out.keys, 1, deepClone(target), reverse,
                            listeners, out.target) >>
              ELSE <<>>
  /\ last' = [rec EXCEPT !.thrown = IF out.status = "ok" THEN "none" ELSE "before"]
  /\ calls' = <<>>
  /\ nMutations' = nMutations + 1
  /\ Remember
  /\ UNCHANGED <<listeners, registered, removedKeys, removals, nAdds>>

NestedSets == {<<P_a, Num(3)>>, <<P_xy, Num(3)>>}
NestedSwaps == {<<P_a, P_r0>>}
NestedPushes == {<<P_r, Num(3)>>}

BeginSet ==
  \E in \in NestedSets :
    Begin([Call("set") EXCEPT !.key = in[1], !.hasKey = TRUE, !.value = in[2]],
          setTarget(target, in[1], in[2], FALSE), "set", FALSE)

BeginSwap ==
  \E locs \in NestedSwaps :
    Begin([Call("swap") EXCEPT !.key = locs[1], !.key2 = locs[2], !.hasKey = TRUE],
          swapTarget(target, locs[1], locs[2], FALSE), "swap", FALSE)

BeginPush ==
  \E in \in NestedPushes :
    Begin([Call("push") EXCEPT !.key = in[1], !.hasKey = TRUE, !.value = in[2]],
          pushTarget(target, TRUE, in[1], in[2]), "push", FALSE)

\* Observers whose callbacks call the API are registered; then a mutating
\* method is called and runs one observer call at a time.
NextNested ==
  \/ nAdds < MaxActors /\ nMutations = 0 /\ AddActor
  \/ nMutations < MaxMutations /\ BeginSet
  \/ nMutations < MaxMutations /\ BeginSwap
  \/ nMutations < MaxMutations /\ BeginPush
  \/ Deliver
  \/ Advance
  \/ EndNotify

SpecNested == Init /\ [][NextNested]_vars

\* ------------------------------------------------------------------------
\* What the observers of the last call saw
\* ------------------------------------------------------------------------
\* the listeners registered under a specific key when the last call began
SpecificKeys == {pre.listeners.specific[i].key : i \in 1..Len(pre.listeners.specific)}
SpecificListeners(k) == MapGet(pre.listeners.specific, k)

\* the value at k differs between the snapshot taken before the last call
\* and a snapshot of the target after it
Changed(k) == ~isEqual(get(k, deepClone(pre.target)), get(k, deepClone(target)))

\* the messages of the last call delivered to callback under key k
Messages(k, callback) ==
  SelectSeq(calls, LAMBDA c : c.key = k /\ c.callback = callback)
Invoked(k, callback) == Messages(k, callback) # <<>>

\* the last call was one of the seven mutating methods and reached the end
\* of the specific observers of its notify passes
ListedMutation == {"set", "remove", "swap", "push", "pop", "insert", "filter"}
NotifiedAll ==
  /\ last.call \in ListedMutation
  /\ last.thrown \in {"none", "notify"}

SetTwice ==
  /\ last.call = "set" /\ prev.last.call = "set"
  /\ last.key = prev.last.key /\ last.value = prev.last.value

\* the messages of the call before the last delivered to callback under k
EarlierMessages(k, callback) ==
  SelectSeq(prev.calls, LAMBDA c : c.key = k /\ c.callback = callback)

\* the first of the two calls changed the value at k, snapshot to snapshot
ChangedEarlier(k) ==
  ~isEqual(get(k, deepClone(prev.target)), get(k, deepClone(pre.target)))

C3_OnlyRegisteredOperations ==
  \A i \in 1..Len(calls) :
    LET operations == registered[calls[i].callback].operations
    IN  ~isEmpty(operations) => include(operations, calls[i].operation)

\* ------------------------------------------------------------------------
\* removeObserver
\* ------------------------------------------------------------------------
\* the key string of a removeObserver call, split as remove splits it
Removal(rec) == keysAndOperations(normalizeKey(rec.key))
RemovalKeys(rec) == {Removal(rec).keys[i] : i \in 1..Len(Removal(rec).keys)}
AllKeys == Removal(last).keys = << <<>> >>

\* the last call was removeObserver(key) with neither operations nor context
RemovedByKey ==
  /\ last.call = "removeObserver" /\ last.hasKey /\ ~last.hasContext
  /\ isEmpty(Removal(last).operations)

RegistryTypes == {"specific", "generic"}
KeysOf(map) == {map[i].key : i \in 1..Len(map)}

\* the listeners of every key the last call did not name are as before
OtherKeysUnaffected ==
  \A type \in RegistryTypes :
    \A k \in KeysOf(pre.listeners[type]) \ RemovalKeys(last) :
      /\ MapHas(listeners[type], k)
      /\ MapGet(listeners[type], k) = MapGet(pre.listeners[type], k)

\* no message is delivered under a key removed and not registered again
RemovedKeysSilent == \A i \in 1..Len(calls) : calls[i].key \notin removedKeys

\* C4 as stated: after removeObserver(key) no observer of key receives a
\* message until it is registered again, and observers of other keys are
\* unaffected.
C4_RemovedKeyOnly ==
  /\ RemovedKeysSilent
  /\ RemovedByKey =>
       /\ \A k \in RemovalKeys(last) : ~MapHas(listeners[KeyType(k)], k)
       /\ OtherKeysUnaffected

\* C4: after removeObserver(key) no observer of key receives a message until
\* it is registered again; and when key is not the empty string, which
\* names every registered key, observers of other keys are unaffected.
C4_RemovedNonEmptyKeyOnly ==
  /\ RemovedKeysSilent
  /\ RemovedByKey =>
       /\ \A k \in RemovalKeys(last) : ~MapHas(listeners[KeyType(k)], k)
       /\ ~AllKeys => OtherKeysUnaffected

\* A mutating call changed the value at a key whose observer had been
\* removed by key, and delivered messages to other observers only.
C4_Witness ==
  /\ IsMutation(last.call) /\ calls # <<>>
  /\ \E k \in removedKeys :
       /\ Changed(k)
       /\ \E c \in 1..Len(registered) :
            \E i \in 1..Len(registered[c].keys) : registered[c].keys[i] = k

\* the only removeObserver call so far carried an operations filter
OperationsRemoved ==
  /\ Len(removals) = 1
  /\ ~isEmpty(Removal(removals[1]).operations)

\* callback c was registered on k before that call, and the call named k
\* and no context but that of c
Subtracted(c, k) ==
  /\ c <= removals[1].adds
  /\ \E i \in 1..Len(registered[c].keys) : registered[c].keys[i] = k
  /\ k \in RemovalKeys(removals[1])
  /\ removals[1].hasContext => registered[c].context = removals[1].context

\* C5: after a removeObserver with an operations filter ('k:opA'), an
\* observer registered on k for several operations is no longer invoked
\* for the operations named but is still invoked for the others: a
\* mutating call of an operation named leaves it alone, one of another of
\* its operations invokes it if and only if the value at k changed.
C5_OnlyNamedOperationsSubtracted ==
  (OperationsRemoved /\ NotifiedAll) =>
    \A c \in 1..Len(registered) : \A k \in RemovalKeys(removals[1]) :
      (/\ Subtracted(c, k) /\ KeyType(k) = "specific"
       /\ include(registered[c].operations, last.call)) =>
        IF include(Removal(removals[1]).operations, last.call)
        THEN ~Invoked(k, c)
        ELSE Invoked(k, c) <=> Changed(k)

\* An observer registered for two operations, one of them removed since,
\* was invoked by a call of the other.
C5_Witness ==
  /\ OperationsRemoved /\ NotifiedAll
  /\ \E c \in 1..Len(registered) : \E k \in RemovalKeys(removals[1]) :
       /\ Subtracted(c, k) /\ KeyType(k) = "specific"
       /\ include(registered[c].operations, last.call)
       /\ ~include(Removal(removals[1]).operations, last.call)
       /\ \E i \in 1..Len(registered[c].operations) :
            include(Removal(removals[1]).operations, registered[c].operations[i][1])
       /\ Invoked(k, c)

\* the listeners of a list registered with another context than that of
\* the last call
OtherContexts(ls) == SelectSeq(ls, LAMBDA l : l.context # last.context)

\* C6 as stated: removeObserver(key, context) changes only the observers of
\* key registered with that context; those registered with another context
\* keep their registration and their operations.
C6_OtherContextsUntouched ==
  (last.call = "removeObserver" /\ last.hasKey /\ last.hasContext) =>
    \A type \in RegistryTypes : \A k \in KeysOf(pre.listeners[type]) :
      OtherContexts(MapGet(listeners[type], k))
        = OtherContexts(MapGet(pre.listeners[type], k))

\* ------------------------------------------------------------------------
\* Messages with an index
\* ------------------------------------------------------------------------
\* the generic key path[] of the path of the last call
GenericKey == last.key \o <<"[", "]">>
GenericListeners == MapGet(pre.listeners.generic, GenericKey)
IndexesOf(messages) == [i \in 1..Len(messages) |-> messages[i].index]
Descending(indexes) ==
  \A i, j \in 1..Len(indexes) : i < j => indexes[i] > indexes[j]

C8_FilterIndexesDescend ==
  last.call = "filter" =>
    \A j \in 1..Len(GenericListeners) :
      Descending(IndexesOf(Messages(GenericKey, GenericListeners[j].callback)))

\* A filter call has delivered several messages to an observer of path[].
C8_Witness ==
  /\ last.call = "filter"
  /\ \E j \in 1..Len(GenericListeners) :
       Len(Messages(GenericKey, GenericListeners[j].callback)) > 1

\* the array at the path of the last call, in the snapshots before and after
ArrayBefore == get(last.key, deepClone(pre.target))
ArrayAfter == get(last.key, deepClone(target))

Thrower == calls[last.thrower]
\* the operation notify was given by the last call
Notified == IF last.call = "sortBy" THEN "filter" ELSE last.call
\* the place of a listener in the registry of specific keys, in the order
\* notify walks it
Place(k, callback) ==
  LET i == MapIndex(pre.listeners.specific, k)
      j == CHOOSE n \in 1..Len(SpecificListeners(k)) :
             SpecificListeners(k)[n].callback = callback
  IN  <<i, j>>
NotAfter(p, q) == p[1] < q[1] \/ (p[1] = q[1] /\ p[2] <= q[2])
\* the listener of k comes no later than the thrower in the thrower's pass
NotAfterThrower(k, callback) ==
  \/ Thrower.index # -2
  \/ NotAfter(Place(k, callback), Place(Thrower.key, Thrower.callback))
InvokedInPass(k, callback, pass) ==
  \E i \in 1..Len(calls) :
    calls[i].key = k /\ calls[i].callback = callback /\ calls[i].pass = pass

SamePlace(c, d) == c.pass = d.pass /\ c.key = d.key /\ c.index = d.index

\* C11: the observers registered on the same path are invoked, within one
\* notify pass, in the order in which they were registered (callbacks are
\* numbered as they are registered); so are those of one generic key for one
\* index.
C11_RegistrationOrder ==
  \A i, j \in 1..Len(calls) :
    (i < j /\ SamePlace(calls[i], calls[j])) => calls[i].callback < calls[j].callback

\* Two observers registered on the same key were both invoked in one pass.
C11_Witness ==
  \E i, j \in 1..Len(calls) :
    i < j /\ SamePlace(calls[i], calls[j]) /\ calls[i].callback # calls[j].callback

\* ------------------------------------------------------------------------
\* swap
\* ------------------------------------------------------------------------
\* C12 as stated: swap(p, p) invokes no observer, whatever the path p.
C12_SwapSamePathSilent ==
  (last.call = "swap" /\ last.key = last.key2) => calls = <<>>

\* path p leads to the location of path q or to a location that holds it
Within(p, q) ==
  /\ IsPrefix(p, q)
  /\ Len(q) = Len(p) \/ q[Len(p) + 1] \in {".", "["}
Related(p, q) == Within(p, q) \/ Within(q, p)

\* the last call was swap on two distinct paths that both held a value, and
\* it made its two writes
SwappedTwo ==
  /\ last.call = "swap" /\ last.thrown # "before"
  /\ last.key # last.key2
  /\ get(last.key, pre.target) # Undef
  /\ get(last.key2, pre.target) # Undef

\* paths at which the target is compared
ProbePaths == {P_a, P_x, P_xy, P_r, P_r0, P_r1, P_m0, <<"m">>}

\* each of the two paths holds what the other held, the rest is as before
Exchanged ==
  /\ get(last.key, target) = get(last.key2, pre.target)
  /\ get(last.key2, target) = get(last.key, pre.target)
  /\ DOMAIN target.f = DOMAIN pre.target.f
  /\ \A q \in ProbePaths :
       (~Related(q, last.key) /\ ~Related(q, last.key2)) =>
         get(q, target) = get(q, pre.target)

\* C13 as stated: after swap(pathA, pathB) on two existing distinct paths
\* each path holds the value the other held and the rest is unchanged.
C13_SwapExchanges == SwappedTwo => Exchanged

\* C13: after swap(pathA, pathB) on two existing distinct paths of which
\* neither leads into the value of the other, get(pathA) returns the value
\* pathB held, get(pathB) the value pathA held, and every other part of
\* the target is unchanged.
C13_SwapExchangesApart ==
  (SwappedTwo /\ ~Related(last.key, last.key2)) => Exchanged

\* Two array elements have been exchanged.
C13_Witness ==
  /\ SwappedTwo /\ ~Related(last.key, last.key2)
  /\ get(last.key, pre.target) # get(last.key2, pre.target)
  /\ get(last.key, target) = get(last.key2, pre.target)

\* ------------------------------------------------------------------------
\* set, then get
\* ------------------------------------------------------------------------
\* C14 as stated: when set(p, v) does not throw and no observer mutates the
\* target, get(p) right after it returns a value deep-equal to v.
C14_GetAfterSet ==
  (last.call = "set" /\ last.thrown = "none") =>
    isEqual(get(last.key, target), last.value)

\* ------------------------------------------------------------------------
\* Keys that each carry their operations
\* ------------------------------------------------------------------------
\* the parts of the key string of the last call between its commas
KeyParts == Split(normalizeKey(last.key), ",")

\* C15 as stated: a registration key whose comma-separated parts each carry
\* an operation after a colon ('a:opA, b:opB') registers the callback on
\* the path of each part, restricted to the operation of that part.
C15_EachKeyItsOperations ==
  (/\ last.call = "addObserver" /\ last.hasKey
   /\ \A i \in 1..Len(KeyParts) : IndexOf(KeyParts[i], ":") > 0) =>
    \A i \in 1..Len(KeyParts) :
      LET part == Split(KeyParts[i], ":")
          on == MapGet(listeners[KeyType(part[1])], part[1])
      IN  \E j \in 1..Len(on) :
            on[j].callback = nAdds /\ on[j].operations = << part[2] >>

\* ------------------------------------------------------------------------
\* removeObserver(key, callback)
\* ------------------------------------------------------------------------
\* C16 as stated: after removeObserver(key, cb), cb being the callback of the
\* addObserver(key, cb) before it, the registry holds no listener of cb
\* under key.
C16_RemovedByCallback ==
  (last.call = "removeObserver" /\ last.hasKey /\ last.context = "callback") =>
    \A k \in RemovalKeys(last) :
      LET on == MapGet(listeners[KeyType(k)], k)
      IN  \A j \in 1..Len(on) : on[j].callback # nAdds

\* ------------------------------------------------------------------------
\* filter and sortBy
\* ------------------------------------------------------------------------
\* the last call returned normally and the value at its path was an array
OnArray(name) ==
  /\ last.call = name /\ last.thrown = "none"
  /\ get(last.key, pre.target).t = "arr"

\* C17 as stated: filter(path, predicate) leaves at path the elements for
\* which the predicate holds, in their order, and returns the array that
\* get(path) returns after the call, also for a path that ends in an index.
C17_FilterReturnsFiltered ==
  OnArray("filter") =>
    /\ get(last.key, target)
         = Arr(SelectSeq(get(last.key, pre.target).e, LAMBDA v : Holds(last.fn, v)))
    /\ last.ret = get(last.key, target)

\* the elements at the path of the last call, before and after it
ElementsBefore == get(last.key, pre.target).e
ElementsAfter == get(last.key, target).e

\* new holds the elements of old in an order that ascends by the key
\* function and keeps elements of equal key in their order in old
StablySorted(old, new, sortBy) ==
  /\ Len(new) = Len(old)
  /\ \E from \in [1..Len(old) -> 1..Len(old)] :
       /\ \A i \in 1..Len(old) : new[i] = old[from[i]]
       /\ \A i, j \in 1..Len(old) : i < j =>
            \/ KeyOf(sortBy, new[i]) < KeyOf(sortBy, new[j])
            \/ KeyOf(sortBy, new[i]) = KeyOf(sortBy, new[j]) /\ from[i] < from[j]

C19_OwnOperationName ==
  IsMutation(last.call) =>
    \A i \in 1..Len(calls) : calls[i].operation = last.call

\* ------------------------------------------------------------------------
\* Array operations on what is no array
\* ------------------------------------------------------------------------
ArrayOperations == {"push", "pop", "insert", "filter", "sortBy"}

\* C20 as stated: an array operation on a path whose value is not an array
\* throws.
C20_ArrayOperationThrows ==
  (last.call \in ArrayOperations /\ get(last.key, pre.target).t # "arr") =>
    last.thrown = "before"

\* ------------------------------------------------------------------------
\* Errors and reads
\* ------------------------------------------------------------------------
\* the container a set writes into, as get resolved it when the call began
SetContainer == get(KeyPrefix(last.key), pre.target)
MissingContainer ==
  /\ last.call = "set"
  /\ KeyPrefix(last.key) # <<>>
  /\ IsNullish(SetContainer)

ReadNames ==
  LET steps == KeySteps(Split(normalizeKey(last.key), "."))
  IN  [i \in 1..Len(steps) |-> steps[i].name]
\* a link before the last one is null or undefined
LinkMissing ==
  \E i \in 0..(Len(ReadNames) - 1) :
    IsNullish(ValueAt(pre.target, SubSeq(ReadNames, 1, i)))

\* C22: get never throws; it returns undefined when a link before the last
\* one is null or undefined; it invokes no observer and leaves the target
\* and the registry as they were.
C22_GetNeverThrows ==
  last.call = "get" =>
    /\ last.thrown = "none"
    /\ LinkMissing /\ last.key \notin {<<>>, Star} => last.ret = Undef
    /\ target = pre.target
    /\ listeners = pre.listeners
    /\ calls = <<>>

\* get('n.z.w') with n null and an observer registered, after a set
C22_Witness ==
  /\ last.call = "get"
  /\ last.key = P_nz \o <<".", "w">>
  /\ LinkMissing
  /\ nMutations > 0
  /\ Len(registered) > 0
  /\ last.ret = Undef

\* ------------------------------------------------------------------------
\* Writes that bypass the mutating methods
\* ------------------------------------------------------------------------
\* the last call changed what the observer call c is about: the value at
\* its key, or for a generic key the element of its array at the index of
\* the message
ElementOf(c, tgt) == Child(get(baseKey(c.key), deepClone(tgt)), NatToStr(c.index))
ChangedFor(c) ==
  IF IsGenericKey(c.key)
  THEN c.index >= 0 /\ ~isEqual(ElementOf(c, pre.target), ElementOf(c, target))
  ELSE Changed(c.key)
\* the value at k as it was at construction differs from the one the last
\* call began with
DirectlyChanged(k) ==
  ~isEqual(get(k, deepClone(InitialTarget)), get(k, deepClone(pre.target)))

Destroyed == Len(removals) > 0 /\ removals[1].call = "destroy"

\* C24: once destroy has been called, no mutating call invokes a callback
\* registered before it, and the registry stays empty until addObserver is
\* called again.
C24_DestroyedObserversSilent ==
  Destroyed =>
    /\ \A n \in 1..Len(calls) : calls[n].callback > removals[1].adds
    /\ nAdds = removals[1].adds => listeners = resetListeners

\* an observer registered before destroy and one after it, then a mutating
\* call that invokes the second
C24_Witness ==
  /\ Destroyed
  /\ removals[1].adds = 1
  /\ nAdds = 2
  /\ IsMutation(last.call)
  /\ registered[1].keys = << P_a >>
  /\ Admits(registered[1].operations, last.call)
  /\ Changed(P_a)
  /\ calls # <<>>

\* ------------------------------------------------------------------------
\* Observers that call the API
\* ------------------------------------------------------------------------
\* the last mutating call, made from outside, has returned
Returned == stack = <<>> /\ IsMutation(last.call) /\ last.thrown = "none"

\* what the callback of observer call n does, and the target as its set
\* leaves it
DoesAt(n) == registered[calls[n].callback].does
Reenters(n) == DoesAt(n).kind \in {"set", "toggle"}
AfterSet(n) ==
  setTarget(calls[n].before, DoesAt(n).key,
            SetValue(DoesAt(n), calls[n].before), FALSE).target

\* the value at the specific key k differs between the targets old and new
Differs(k, old, new) == ~isEqual(get(k, deepClone(old)), get(k, deepClone(new)))

\* what the observer call c is about differs between the targets old and new
DiffersFor(c, old, new) ==
  IF IsGenericKey(c.key)
  THEN c.index >= 0 /\ ~isEqual(ElementOf(c, old), ElementOf(c, new))
  ELSE Differs(c.key, old, new)

\* the observer calls made by the notify that observer call n began: they
\* follow n before any call of n's own notify or of one further out
NestedFirst(n) ==
  \A m \in 1..Len(calls) :
    calls[m].frame = n =>
      /\ m > n
      /\ \A j \in (n + 1)..m : calls[j].depth > calls[n].depth

\* every observer of a specific key that the set of observer call n changed
\* was invoked by the notify of that set
NestedNotifiesAll(n) ==
  \A i \in 1..Len(listeners.specific) :
    Differs(listeners.specific[i].key, calls[n].before, AfterSet(n)) =>
      \A j \in 1..Len(listeners.specific[i].listeners) :
        \E m \in 1..Len(calls) :
          /\ calls[m].frame = n
          /\ calls[m].key = listeners.specific[i].key
          /\ calls[m].callback = listeners.specific[i].listeners[j].callback

\* C25: when a callback calls a mutating method, the nested call notifies
\* every observer its change affects before the outer notify goes on, and
\* the outer call invokes an observer only for what its own mutation
\* changed: an observer whose path only the nested call changed is not
\* invoked again.
C25_NestedCycleFirst ==
  (Returned /\ listeners = pre.listeners) =>
    \A n \in 1..Len(calls) :
      /\ Reenters(n) => NestedFirst(n) /\ NestedNotifiesAll(n)
      /\ calls[n].frame = 0 => DiffersFor(calls[n], pre.target, mutated)

\* the observer calls of the first notify of the call made from outside
\* include one of callback for key (and index)
InvokedByOuter(key, index, callback) ==
  \E m \in 1..Len(calls) :
    /\ calls[m].frame = 0 /\ calls[m].pass = 1
    /\ calls[m].key = key /\ calls[m].index = index
    /\ calls[m].callback = callback

\* every observer of a specific key registered when the last call began,
\* the value at its key changed by the call, was invoked by its first notify
SpecificAllInvoked ==
  \A i \in 1..Len(pre.listeners.specific) :
    LET en == pre.listeners.specific[i]
    IN  Differs(en.key, pre.target, mutated) =>
          \A j \in 1..Len(en.listeners) :
            InvokedByOuter(en.key, -2, en.listeners[j].callback)

\* every observer of a generic key registered when the last call began
\* was invoked by its first notify for every element the call changed
GenericAllInvoked ==
  \A i \in 1..Len(pre.listeners.generic) :
    LET en == pre.listeners.generic[i]
        old == get(baseKey(en.key), deepClone(pre.target))
        new == get(baseKey(en.key), deepClone(mutated))
    IN  (old.t = "arr" /\ new.t = "arr") =>
          \A x \in 0..(MaxArrLen - 1) :
            ~isEqual(Child(old, NatToStr(x)), Child(new, NatToStr(x))) =>
              \A j \in 1..Len(en.listeners) :
                InvokedByOuter(en.key, x, en.listeners[j].callback)

\* a callback invoked by the first notify of the last call called kind
CalledFromOuter(kind) ==
  \E n \in 1..Len(calls) :
    calls[n].frame = 0 /\ calls[n].pass = 1 /\ DoesAt(n).kind = kind

\* C26: a removeObserver made by a callback does not touch the notify in
\* progress: every observer, specific or generic, that was registered when
\* the mutating call began and whose value the call changed is still invoked
\* by that notify.
C26_RemovalAffectsNextPass ==
  (Returned /\ CalledFromOuter("removeObserver")) =>
    SpecificAllInvoked /\ GenericAllInvoked

\* the observer call whose callback registered callback, 0 when it was
\* registered from outside
AddedBy(callback) == registered[callback].by

\* C27: an observer, specific or generic, that a callback adds is not
\* invoked by the notify in progress, the one that invoked that callback.
C27_AddedObserverWaits ==
  \A m \in 1..Len(calls) :
    AddedBy(calls[m].callback) > 0 =>
      ~ /\ calls[m].frame = calls[AddedBy(calls[m].callback)].frame
        /\ calls[m].pass = calls[AddedBy(calls[m].callback)].pass

\* the observer calls of callback, in order
CallsOf(callback) == SelectSeq(calls, LAMBDA c : c.callback = callback)

\* set(p, v) was called from outside and changed p; o1 and o2 are the two
\* observers, both of p and registered in that order; o1 calls set(p, w)
\* with w different from v, o2 does nothing
Reentered(o1, o2) ==
  /\ Returned
  /\ last.call = "set"
  /\ Differs(last.key, pre.target, mutated)
  /\ Len(registered) = 2 /\ o1 = 1 /\ o2 = 2
  /\ registered[o1].key = last.key
  /\ registered[o2].key = last.key
  /\ registered[o1].does.kind = "set"
  /\ registered[o1].does.key = last.key
  /\ ~isEqual(registered[o1].does.value, last.value)
  /\ registered[o2].does = Idle

\* C28: the value of the messages for a specific key is read once, before
\* the observers of the key are called.  With o1 and o2 registered in that
\* order on p and o1 calling set(p, w), o2 receives the message of the
\* nested set with w first and the message of the outer set with the older
\* value after it, so the last value o2 receives is not the value of p.
C28_OlderValueLast ==
  \A o1, o2 \in 1..Len(registered) :
    Reentered(o1, o2) =>
      LET w == registered[o1].does.value
          ms == CallsOf(o2)
      IN  /\ Len(ms) = 2
          /\ ms[1].depth = 2 /\ ms[1].value = w
          /\ ms[2].frame = 0 /\ ms[2].value = last.value
          /\ get(last.key, target) = w
          /\ ~isEqual(ms[2].value, get(last.key, target))

C28_Witness ==
  /\ Reentered(1, 2)
  /\ last.key = P_a
  /\ Len(calls) = 4

\* observer o, of the key p, calls set(p, ...) as kind says each time it is
\* invoked; the call made from outside changed p; no other observer calls
\* the API
SoleSetter(o, kind) ==
  /\ nMutations > 0
  /\ o \in 1..Len(registered)
  /\ registered[o].does.kind = kind
  /\ registered[o].does.key = registered[o].key
  /\ Differs(registered[o].key, pre.target, mutated)
  /\ \A d \in 1..Len(registered) : d # o => registered[d].does = Idle

\* the set made by observer call n has invoked its own observer again, or
\* is about to
InvokedAgain(n) ==
  \/ \E m \in 1..Len(calls) :
       calls[m].frame = n /\ calls[m].callback = calls[n].callback
  \/ /\ stack # <<>>
     /\ Top.id = n
     /\ \E j \in 1..Len(Top.pending) : Top.pending[j].callback = calls[n].callback

Recursing ==
  \A o \in 1..Len(registered) :
    SoleSetter(o, "toggle") =>
      /\ stack # <<>>
      /\ \A n \in 1..Len(calls) : calls[n].callback = o => InvokedAgain(n)

Settling ==
  \A o \in 1..Len(registered) :
    SoleSetter(o, "set") =>
      /\ Len(CallsOf(o)) <= 2
      /\ \A n \in 1..Len(calls) : calls[n].depth <= 2
      /\ \A i \in 3..Len(stack) : stack[i].pending = <<>>

Forward == {"set", "remove", "swap", "push", "pop", "insert"}
Ascending(indexes) ==
  \A i, j \in 1..Len(indexes) : i < j => indexes[i] < indexes[j]

\* the keys the last call handed to notify
NotifiedKeys == IF last.call = "swap" THEN {last.key, last.key2} ELSE {last.key}

\* the array at the base of the generic key g, in the snapshots before and
\* after the last call, and live
BaseBefore(g) == get(baseKey(g), deepClone(pre.target))
BaseAfter(g) == get(baseKey(g), deepClone(target))
\* the indexes at which the two snapshots differ
ChangedIndexes(g) ==
  {x \in 0..MaxArrLen :
     ~isEqual(Child(BaseBefore(g), NatToStr(x)), Child(BaseAfter(g), NatToStr(x)))}

Wrote == IsMutation(last.call) /\ last.thrown # "before"
\* the registered generic keys of which a key handed to notify is a prefix
\* and whose base is absent in one of the two snapshots
AbsentBases ==
  {g \in KeysOf(pre.listeners.generic) :
     /\ \E P \in NotifiedKeys : IsPrefix(P, g)
     /\ IsNullish(BaseBefore(g)) \/ IsNullish(BaseAfter(g))}
\* every specific observer the call had to invoke has been invoked
SpecificInvoked ==
  \A k \in SpecificKeys : \A j \in 1..Len(SpecificListeners(k)) :
    (Changed(k) /\ Admits(SpecificListeners(k)[j].operations, Notified)) =>
      Invoked(k, SpecificListeners(k)[j].callback)

\* C31: when the registry holds a generic key G[] of which the mutated path
\* is a prefix, and the value at G is undefined or null in the snapshot
\* before the call or in the one after it, a mutating call that has written
\* and whose observers return ends with a TypeError thrown by notify, the
\* target keeping what was written and the specific observers invoked.
C31_AbsentBaseThrows ==
  (Wrote /\ last.thrown # "callback" /\ AbsentBases # {}) =>
    /\ last.thrown = "notify"
    /\ target = mutated
    /\ SpecificInvoked


\* ------------------------------------------------------------------------
\* The two notify passes of swap
\* ------------------------------------------------------------------------
\* the messages of the last call delivered to callback under key k in a pass
MessagesInPass(k, callback, pass) ==
  SelectSeq(Messages(k, callback), LAMBDA c : c.pass = pass)
\* a swap of two different paths whose values were not deep-equal, ended
\* without an exception
SwappedApart ==
  /\ last.call = "swap" /\ last.thrown = "none"
  /\ last.key # last.key2
  /\ ~isEqual(get(last.key, deepClone(pre.target)),
              get(last.key2, deepClone(pre.target)))

\* C32: after swap(pathA, pathB) with pathA different from pathB and values
\* that are not deep-equal, every observer without operations filter on
\* pathA, on pathB or on '*' whose value changed has received exactly two
\* messages, both with the operation 'swap': one in each of the two notify
\* passes, which compare with the same snapshot taken before the swap.
C32_SwapNotifiesTwice ==
  SwappedApart =>
    \A k \in SpecificKeys \cap {last.key, last.key2, Star} :
      \A j \in 1..Len(SpecificListeners(k)) :
        LET listener == SpecificListeners(k)[j]
            messages == Messages(k, listener.callback)
        IN  (Changed(k) /\ isEmpty(listener.operations)) =>
              /\ Len(messages) = 2
              /\ Len(MessagesInPass(k, listener.callback, 1)) = 1
              /\ Len(MessagesInPass(k, listener.callback, 2)) = 1
              /\ \A n \in 1..2 : messages[n].operation = "swap"

\* swap('r[0]', 'r[1]') on [2, 1, 3]: the observer of r[1] and the observer
\* of '*' have each received two messages
C32_Witness ==
  /\ SwappedApart
  /\ last.key = P_r0 /\ last.key2 = P_r1
  /\ \E j \in 1..Len(calls) : calls[j].key = P_r1 /\ calls[j].pass = 2
  /\ \E j \in 1..Len(calls) : calls[j].key = Star /\ calls[j].pass = 2


\* ------------------------------------------------------------------------
\* remove of an array element and the observers of the array's generic key
\* ------------------------------------------------------------------------
\* the last call was remove('P[i]') and it has spliced
RemovedElement ==
  /\ last.call = "remove" /\ ArrayIndexAt(last.key) > 0
  /\ last.thrown # "before"
\* P[] and i of remove('P[i]')
RemovedFrom == SubSeq(last.key, 1, ArrayIndexAt(last.key)) \o <<"]">>
RemovedIndex ==
  parseInt(SubSeq(last.key, ArrayIndexAt(last.key) + 1, Len(last.key) - 1))

\* C33: remove('P[i]') has delivered to an observer of the generic key P[]
\* at most one message, with the index i, and that one only when the element
\* at index i before the call is not deep-equal to the element at index i
\* after the splice; the other indexes that the shift changed, the vanished
\* last one included, are not reported.  The observers returning, the
\* message is delivered whenever the observer admits 'remove' and
\* get('P[i]') differs between the two snapshots (get reads a null element
\* as undefined).
C33_RemoveElementOneMessage ==
  RemovedElement =>
    \A j \in 1..Len(MapGet(pre.listeners.generic, RemovedFrom)) :
      LET listener == MapGet(pre.listeners.generic, RemovedFrom)[j]
          messages == Messages(RemovedFrom, listener.callback)
      IN  /\ Len(messages) <= 1
          /\ \A n \in 1..Len(messages) : messages[n].index = RemovedIndex
          /\ messages # <<>> =>
               /\ RemovedIndex \in ChangedIndexes(RemovedFrom)
               /\ Admits(listener.operations, "remove")
          /\ (/\ Changed(last.key) /\ Admits(listener.operations, "remove")
              /\ last.thrown = "none") => messages # <<>>

\* remove('r[0]') on [2, 1, 3]: the indexes 0, 1 and 2 differ between the
\* snapshots and the observer of r[] has received the message of index 0 only
C33_Witness ==
  /\ RemovedElement /\ last.key = P_r0 /\ last.thrown = "none"
  /\ {0, 1, 2} \subseteq ChangedIndexes(G_r)
  /\ \E j \in 1..Len(MapGet(pre.listeners.generic, G_r)) :
       LET messages == Messages(G_r, MapGet(pre.listeners.generic, G_r)[j].callback)
       IN  Len(messages) = 1 /\ messages[1].index = 0


\* ------------------------------------------------------------------------
\* removeObserver with operations and no context
\* ------------------------------------------------------------------------
\* a removeObserver call that named a key and operations and no context
Filtered(rec) ==
  /\ rec.call = "removeObserver" /\ rec.hasKey /\ ~rec.hasContext
  /\ ~isEmpty(Removal(rec).operations)
  /\ Removal(rec).keys # << <<>> >>
\* the listener's operations are empty once those of the call are subtracted
Emptied(operations, rec) == isEmpty(difference(operations, Removal(rec).operations))

\* C34: removeObserver('k:ops') without a context leaves under k no observer
\* whose operations are empty after the subtraction: an observer registered
\* on k without operations is removed with those whose operations were all
\* named, and a later mutating call, of whatever operation, delivers it no
\* message under k.
C34_UnfilteredObserverRemoved ==
  /\ Filtered(last) =>
       \A k \in RemovalKeys(last) :
         LET before == MapGet(pre.listeners[KeyType(k)], k)
             after == MapGet(listeners[KeyType(k)], k)
         IN  /\ \A j \in 1..Len(after) : ~isEmpty(after[j].operations)
             /\ \A j \in 1..Len(before) :
                  Emptied(before[j].operations, last) =>
                    \A n \in 1..Len(after) : after[n].callback # before[j].callback
  /\ \A n \in 1..Len(removals) :
       Filtered(removals[n]) =>
         \A c \in 1..removals[n].adds : \A k \in RemovalKeys(removals[n]) :
           (/\ \E i \in 1..Len(registered[c].keys) : registered[c].keys[i] = k
            /\ Emptied(registered[c].operations, removals[n])) =>
             ~Invoked(k, c)

\* addObserver('a', cb), removeObserver('a:set'), remove('a'): the value at
\* a changed and cb, registered without operations, was not invoked
C34_Witness ==
  /\ last.call = "remove" /\ last.key = P_a /\ last.thrown = "none"
  /\ Changed(P_a)
  /\ Len(removals) = 1 /\ Filtered(removals[1])
  /\ \E c \in 1..removals[1].adds :
       /\ registered[c].keys = << P_a >>
       /\ isEmpty(registered[c].operations)
       /\ ~Invoked(P_a, c)


\* ------------------------------------------------------------------------
\* A callback that throws and the mutation already made
\* ------------------------------------------------------------------------
\* C35: when an observer callback has thrown during a mutating call, the
\* target is as the mutation wrote it, not as it was when the call began:
\* it differs from the snapshot taken before the call, the value at the key
\* of the observer that threw is the new one it was handed, and a set of
\* that key has left the value set there; the registry is as it was when
\* the call began.
C35_NoRollbackOnThrow ==
  last.thrown = "callback" =>
    /\ target = mutated
    /\ ~isEqual(deepClone(target), deepClone(pre.target))
    /\ Thrower.index = -2 =>
         /\ Changed(Thrower.key)
         /\ get(Thrower.key, target) = Thrower.value
    /\ (last.call = "set" /\ Thrower.key = last.key) =>
         get(last.key, target) = last.value
    /\ listeners = pre.listeners

\* set('a', [3]) with an observer of a that throws: a holds [3]
C35_Witness ==
  /\ last.thrown = "callback"
  /\ last.call = "set" /\ last.key = P_a /\ Thrower.key = P_a
  /\ get(P_a, pre.target) = Num(1)
  /\ get(P_a, target) = Arr(<<Num(3)>>)
  /\ listeners = pre.listeners

\* ------------------------------------------------------------------------
\* The shape of the registry
\* ------------------------------------------------------------------------
\* C36: whatever addObserver and removeObserver calls were made, every key
\* of the registry, in the specific map or in the generic map, has at least
\* one observer: a key whose last observer was removed is deleted, and no
\* key is left with an empty list.
C36_NoEmptyKey ==
  \A type \in RegistryTypes :
    \A i \in 1..Len(listeners[type]) : listeners[type][i].listeners # <<>>

\* a removeObserver call removed the last observer of a key, which is gone,
\* and left another key registered
C36_Witness ==
  /\ last.call = "removeObserver"
  /\ \E type \in RegistryTypes :
       KeysOf(pre.listeners[type]) \ KeysOf(listeners[type]) # {}
  /\ \E type \in RegistryTypes : listeners[type] # <<>>

\* the key ends with the wildcard marker '[]'
EndsWithMarker(k) == Len(k) >= 2 /\ SubSeq(k, Len(k) - 1, Len(k)) = <<"[", "]">>
\* the keys named by the addObserver call that registered callback c
NamedBy(c) == {registered[c].keys[i] : i \in 1..Len(registered[c].keys)}

\* C37: whatever addObserver and removeObserver calls were made, the keys of
\* the generic map are keys that end with '[]' and the keys of the specific
\* map are keys that do not, so that no key is in both; and an addObserver
\* call has stored each key it names in the map of its kind.
C37_GenericIffMarker ==
  /\ \A k \in KeysOf(listeners.generic) : EndsWithMarker(k)
  /\ \A k \in KeysOf(listeners.specific) : ~EndsWithMarker(k)
  /\ KeysOf(listeners.generic) \cap KeysOf(listeners.specific) = {}
  /\ last.call = "addObserver" =>
       \A k \in NamedBy(nAdds) :
         IF EndsWithMarker(k)
         THEN \E j \in 1..Len(MapGet(listeners.generic, k)) :
                MapGet(listeners.generic, k)[j].callback = nAdds
         ELSE \E j \in 1..Len(MapGet(listeners.specific, k)) :
                MapGet(listeners.specific, k)[j].callback = nAdds

\* observers of r, of r[] and of m[0][2][] are registered, each key in the
\* map of its kind
C37_Witness ==
  /\ last.call = "addObserver"
  /\ G_r \in KeysOf(listeners.generic)
  /\ \E k \in KeysOf(listeners.specific) : k \in {P_r, P_r1}
  /\ \E c \in 1..nAdds : EndsWithMarker(registered[c].keys[1])
  /\ \E c \in 1..nAdds : ~EndsWithMarker(registered[c].keys[1])

\* ------------------------------------------------------------------------
\* Specific observers before generic observers
\* ------------------------------------------------------------------------
\* the message went to an observer of a generic key
ToGeneric(c) == EndsWithMarker(c.key)

\* C38: among the messages of one notify pass, the observers not mutating
\* the target, no message to an observer of a generic key comes before a
\* message to an observer of a specific key.
C38_SpecificBeforeGeneric ==
  \A i, j \in 1..Len(calls) :
    (i < j /\ calls[i].pass = calls[j].pass) =>
      ~(ToGeneric(calls[i]) /\ ~ToGeneric(calls[j]))

\* a pass has delivered messages to observers of both kinds, and a swap has
\* delivered a generic message of its first pass before a specific message
\* of its second
C38_Witness ==
  /\ \E i, j \in 1..Len(calls) :
       /\ i < j /\ calls[i].pass = calls[j].pass
       /\ ~ToGeneric(calls[i]) /\ ToGeneric(calls[j])
  /\ last.call = "swap"
  /\ \E i, j \in 1..Len(calls) :
       /\ i < j /\ calls[i].pass < calls[j].pass
       /\ ToGeneric(calls[i]) /\ ~ToGeneric(calls[j])

============================================================================
